---------------------------- MODULE Spec2Model ----------------------------
(***************************************************************************)
(* A model of PolyRoll: the turtle command parser, the turtle path         *)
(* generators (surface path and flat path), the lattice move lookup        *)
(* (getMoveData) and the accumulation of lattice coordinates over rolls.   *)
(*                                                                         *)
(* Numbers.  Lengths are integers in units of 1/10000 of the edge length   *)
(* (Unit = 1.0), so every threshold of the code (0.05, 0.015, 0.01, 0.001, *)
(* 0.0001) is a whole number; for whole numbers x the code's tests         *)
(* `x > 0.0001` and `x > -0.0001` are `x > Eps` and `x > -Eps`.            *)
(* Headings and normals are unit vectors along a coordinate axis, which is *)
(* what the square-faced shapes (cube, dcSquare) produce under turns by    *)
(* multiples of 90 degrees; all vector arithmetic is then exact.           *)
(* Angles handed to getMoveData are whole degrees.                         *)
(***************************************************************************)
EXTENDS Integers, Sequences, FiniteSets, TLC

VARIABLES
    text,       \* parseCommands: the input text, a sequence of characters
    lineIdx,    \* parseCommands: number of lines the forEach has processed
    cmds,       \* parseCommands: the commands pushed so far
    shape,      \* App: currentShape
    commands,   \* the parsed commands the two path generators have read so far
    gp,         \* generatePath: state, segments, currentPath, error, halted
    fp,         \* generateFlatPath: state, segments, currentPath
    pc,         \* "loop": reading commands, "returned": both generators have
                \* returned, "handled": the handler has finished
    result,     \* the PathResult generatePath returned
    flatSegments, \* the segments generateFlatPath returned
    app,        \* App: pathSegments, flatPathSegments, pathError, and the
                \* exception the handler threw, if any
    history,    \* App: the steps taken
    currentStepIndex, \* App: the index (from 0) of the step shown
    sim,        \* Simulation: isRolling, the refs of the roll under way and
                \* pendingMove
    rolls,      \* the number of rolls started so far
    defn,       \* the definition whose getMoveData is looked up
    inputAngle, \* the angle handed to it, in degrees
    moveData,   \* what it returned
    solid,      \* the shape whose definition is queried
    faceList,   \* what its getFaces returned last, <<>> before the first call
    calls,      \* the number of calls of getFaces so far
    lookup,     \* the last neighbour lookup on those faces and what it found
    resting,    \* the face the most-downward query names at the initial pose
    walk,       \* computeFaces: the number of closed walks examined so far
    faceSearch, \* computeFaces: faces and faceSet
    table,      \* DOD_FACES, <<>> until computeFaces has returned
    colors,     \* computeFaceColorIndices: colors, <<>> before it is filled
    frames,     \* the loop variable c of each call of solve under way
    solved,     \* what solve(0) returned
    colorIndices, \* DOD_FACE_COLOR_INDICES
    crossings,  \* what extractEdgeCrossings returned, none before its call
    mv,         \* moveTurtle: the variables of the call under way
    loopPc,     \* moveTurtle: "idle", "loop" in the while loop, "done" after it
    anim,       \* Simulation: isRollAnimating, currentCrossingIndex, the
                \* rollAnimationCrossings it is given, and whether the timer of
                \* the next roll of the animation is set
    mesh,       \* Simulation: position and quaternion of meshRef.current
    rollProgress, \* Simulation: 1 once rollProgress.current is 1, 0 before
    updates,    \* the state updates scheduled and not yet committed, in order
    reported    \* the calls of onRollComplete for the roll under way, those of
                \* onRollAnimationComplete for the animation under way, and
                \* the number of animations started

parseVars == <<text, lineIdx, cmds>>

pathVars == <<shape, commands, gp, fp, pc, result, flatSegments, app>>

rollVars == <<history, currentStepIndex, sim, rolls>>

moveVars == <<defn, inputAngle, moveData>>

faceVars == <<solid, faceList, calls, lookup, resting>>

dodVars == <<walk, faceSearch, table, colors, frames, solved, colorIndices>>

crossVars == <<crossings>>

loopVars == <<mv, loopPc>>

\* the variables of the specifications that take one step of a loop or of
\* the scheduler at a time
simVars == <<anim, mesh, rollProgress, updates, reported>>

stepVars == <<loopVars, simVars>>

geomVars == <<faceVars, dodVars, crossVars, stepVars>>

vars == <<parseVars, pathVars, rollVars, moveVars, geomVars>>

-----------------------------------------------------------------------------
(* Bounds of the model *)

MaxLines == 2

MaxCmds == 3

-----------------------------------------------------------------------------
(* Generic helpers *)

Abs(x) == IF x < 0 THEN -x ELSE x

Range(s) == {s[i] : i \in 1..Len(s)}

-----------------------------------------------------------------------------
(* Vectors (three.js Vector3) as triples of integers                       *)

Add(a, b) == <<a[1] + b[1], a[2] + b[2], a[3] + b[3]>>

Sub(a, b) == <<a[1] - b[1], a[2] - b[2], a[3] - b[3]>>

Scale(v, k) == <<v[1] * k, v[2] * k, v[3] * k>>

Negate(v) == Scale(v, -1)

Dot(a, b) == a[1] * b[1] + a[2] * b[2] + a[3] * b[3]

Cross(a, b) ==
    <<a[2] * b[3] - a[3] * b[2], a[3] * b[1] - a[1] * b[3], a[1] * b[2] - a[2] * b[1]>>

DistSq(a, b) == Dot(Sub(a, b), Sub(a, b))

\* the length of a vector along a coordinate axis
AxisLength(v) == Abs(v[1]) + Abs(v[2]) + Abs(v[3])

\* Vector3.normalize for a vector along a coordinate axis (the zero vector
\* stays zero)
Normalize(v) ==
    LET n == IF AxisLength(v) = 0 THEN 1 ELSE AxisLength(v)
    IN  <<v[1] \div n, v[2] \div n, v[3] \div n>>

\* multiplyScalar(0.5) on a vector of even components
Half(v) == <<v[1] \div 2, v[2] \div 2, v[3] \div 2>>

\* (a variant of Rotate that turns the other way)
RotateBack(v, k, c, s) ==
    Add(Add(Scale(v, c), Scale(Cross(v, k), s)), Scale(k, Dot(k, v) * (1 - c)))

\* Rotation of v about the unit axis k by the angle of cosine c and sine s
\* (Quaternion.setFromAxisAngle + applyQuaternion, Vector3.applyAxisAngle).
Rotate(v, k, c, s) ==
    Add(Add(Scale(v, c), Scale(Cross(k, v), s)), Scale(k, Dot(k, v) * (1 - c)))

\* cosine and sine of a whole number of quarter turns given in degrees
CosDeg(d) == CASE d % 360 = 0 -> 1 [] d % 360 = 180 -> -1 [] OTHER -> 0

SinDeg(d) == CASE d % 360 = 90 -> 1 [] d % 360 = 270 -> -1 [] OTHER -> 0

\* Math.atan2(y, x) in degrees, for the directions of the axes and diagonals
Atan2Deg(y, x) ==
    CASE y = 0 /\ x >= 0 -> 0
      [] y = 0 /\ x < 0  -> 180
      [] x = 0 /\ y > 0  -> 90
      [] x = 0 /\ y < 0  -> -90
      [] x > 0 /\ y > 0  -> 45
      [] x < 0 /\ y > 0  -> 135
      [] x < 0 /\ y < 0  -> -135
      [] OTHER           -> -45

\* Array.prototype.sort with the comparator key(a) - key(b): an insertion
\* sort, stable as the built-in is
RECURSIVE InsertByAngle(_, _, _, _, _)
InsertByAngle(sorted, v, center, tangent, bitangent) ==
    LET key(a) == Atan2Deg(Dot(Sub(a, center), bitangent), Dot(Sub(a, center), tangent))
    IN  IF sorted = <<>> THEN <<v>>
        ELSE IF key(v) < key(Head(sorted)) THEN <<v>> \o sorted
        ELSE <<Head(sorted)>> \o InsertByAngle(Tail(sorted), v, center, tangent, bitangent)

RECURSIVE SortByAngle(_, _, _, _)
SortByAngle(vs, center, tangent, bitangent) ==
    IF vs = <<>> THEN <<>>
    ELSE InsertByAngle(SortByAngle(SubSeq(vs, 1, Len(vs) - 1), center, tangent, bitangent),
                       vs[Len(vs)], center, tangent, bitangent)

-----------------------------------------------------------------------------
(* Shapes: the cube and the doubly covered square                          *)

EDGE_LENGTH == 10000

CUBE_INRADIUS == EDGE_LENGTH \div 2

SQUARE_INRADIUS == EDGE_LENGTH \div 2

CUBE_FACE_CENTERS ==
    << <<0, -1, 0>>, <<0, 0, 1>>, <<-1, 0, 0>>, <<1, 0, 0>>, <<0, 0, -1>>, <<0, 1, 0>> >>

CUBE_VERTICES ==
    LET raw == << <<-1, -1, -1>>, <<1, -1, -1>>, <<1, 1, -1>>, <<-1, 1, -1>>,
                  <<-1, -1, 1>>, <<1, -1, 1>>, <<1, 1, 1>>, <<-1, 1, 1>> >>
        half(i) == Scale(raw[i], EDGE_LENGTH \div 2)
    IN  <<half(1), half(2), half(3), half(4), half(5), half(6), half(7), half(8)>>

\* One entry of the map over CUBE_FACE_CENTERS in getFaces: the four
\* vertices on the side of the face normal, sorted by their angle in the
\* face's tangent frame.
CubeFace(i) ==
    LET c         == CUBE_FACE_CENTERS[i]
        normal    == Normalize(c)
        center    == Scale(c, CUBE_INRADIUS)
        Near(v)   == Dot(v, normal) * 10 > EDGE_LENGTH
        faceVerts == SelectSeq(CUBE_VERTICES, Near)
        up        == IF Abs(normal[2]) * 10 > 9 THEN <<1, 0, 0>> ELSE <<0, 1, 0>>
        tangent   == Normalize(Cross(normal, up))
        bitangent == Normalize(Cross(normal, tangent))
    IN  [index |-> i, center |-> center, normal |-> normal,
         vertices |-> SortByAngle(faceVerts, center, tangent, bitangent)]

\* getFaces of the cube
CubeFaces == [i \in 1..Len(CUBE_FACE_CENTERS) |-> CubeFace(i)]

DC_SQUARE_VERTICES ==
    << <<-(EDGE_LENGTH \div 2), -SQUARE_INRADIUS, -(EDGE_LENGTH \div 2)>>,
       <<EDGE_LENGTH \div 2, -SQUARE_INRADIUS, -(EDGE_LENGTH \div 2)>>,
       <<EDGE_LENGTH \div 2, -SQUARE_INRADIUS, EDGE_LENGTH \div 2>>,
       <<-(EDGE_LENGTH \div 2), -SQUARE_INRADIUS, EDGE_LENGTH \div 2>> >>

RECURSIVE Reverse(_)
Reverse(seq) == IF seq = <<>> THEN <<>> ELSE Append(Reverse(Tail(seq)), Head(seq))

\* getFaces of a doubly covered polygon: two faces on the same vertices, the
\* second with the opposite normal and the reversed vertex order.
DcFaces(vertices, inradius) ==
    << [index |-> 1, center |-> <<0, -inradius, 0>>, normal |-> <<0, -1, 0>>,
        vertices |-> vertices],
       [index |-> 2, center |-> <<0, -inradius, 0>>, normal |-> <<0, 1, 0>>,
        vertices |-> Reverse(vertices)] >>

DcSquareFaces == DcFaces(DC_SQUARE_VERTICES, SQUARE_INRADIUS)

-----------------------------------------------------------------------------
(* The doubly covered triangle and hexagon (doublyCoveredKGon.ts).  Their  *)
(* coordinates hold sqrt(3), and are stored in units that carry the        *)
(* factor: a stored <<x, y, z>> of dcHexagon stands for                    *)
(* (x*sqrt(3), y*sqrt(3), z)/10000 and one of dcTriangle for               *)
(* (x, y/sqrt(3), z/sqrt(3))/10000.  For both shapes the squared length of *)
(* a horizontal vector is proportional to 3*x*x + z*z and its direction is *)
(* atan2(z, x*sqrt(3)); for the square shapes the factor 3 is 1.           *)

TRIANGLE_HEIGHT == (3 * EDGE_LENGTH) \div 2

TRIANGLE_INRADIUS == TRIANGLE_HEIGHT \div 3

HEX_INRADIUS == EDGE_LENGTH \div 2

HEX_CIRCUMRADIUS == EDGE_LENGTH

DC_TRIANGLE_VERTICES ==
    << <<0, -TRIANGLE_INRADIUS, -((TRIANGLE_HEIGHT * 2) \div 3)>>,
       <<EDGE_LENGTH \div 2, -TRIANGLE_INRADIUS, TRIANGLE_HEIGHT \div 3>>,
       <<-(EDGE_LENGTH \div 2), -TRIANGLE_INRADIUS, TRIANGLE_HEIGHT \div 3>> >>

\* the corners at 30, 90, 150, 210, 270 and 330 degrees
DC_HEXAGON_VERTICES ==
    << <<HEX_CIRCUMRADIUS \div 2, -HEX_INRADIUS, HEX_CIRCUMRADIUS \div 2>>,
       <<0, -HEX_INRADIUS, HEX_CIRCUMRADIUS>>,
       <<-(HEX_CIRCUMRADIUS \div 2), -HEX_INRADIUS, HEX_CIRCUMRADIUS \div 2>>,
       <<-(HEX_CIRCUMRADIUS \div 2), -HEX_INRADIUS, -(HEX_CIRCUMRADIUS \div 2)>>,
       <<0, -HEX_INRADIUS, -HEX_CIRCUMRADIUS>>,
       <<HEX_CIRCUMRADIUS \div 2, -HEX_INRADIUS, -(HEX_CIRCUMRADIUS \div 2)>> >>

DC_FACE_CENTERS == << <<0, -1, 0>>, <<0, 1, 0>> >>

\* rollAngle of the doubly covered shapes, in degrees
DC_ROLL_ANGLE == 180

\* rollAngle of the cube, in degrees
CUBE_ROLL_ANGLE == 90

\* the shapes that roll in this model: those whose rolls are turns by a
\* multiple of 90 degrees
RollShapes == {"cube", "dcTriangle", "dcSquare", "dcHexagon"}

rollAngle(sh) == IF sh = "cube" THEN CUBE_ROLL_ANGLE ELSE DC_ROLL_ANGLE

\* definition.faceCenters of these shapes
rollFaceCenters(sh) == IF sh = "cube" THEN CUBE_FACE_CENTERS ELSE DC_FACE_CENTERS

XWeight(sh) == IF sh \in {"dcTriangle", "dcHexagon"} THEN 3 ELSE 1

inradius(sh) ==
    CASE sh = "dcTriangle" -> TRIANGLE_INRADIUS
      [] sh = "dcSquare"   -> SQUARE_INRADIUS
      [] sh = "dcHexagon"  -> HEX_INRADIUS
      [] sh = "cube"       -> CUBE_INRADIUS

initialPosition(sh) == <<0, inradius(sh), 0>>

-----------------------------------------------------------------------------
(* Quaternions (three.js Quaternion).  A rotation is held as the images of *)
(* the three doubled basis vectors, which are whole for every rotation the *)
(* rolls of these shapes compose.                                          *)

IdentityQuaternion == << <<2, 0, 0>>, <<0, 2, 0>>, <<0, 0, 2>> >>

initialQuaternion(sh) == IdentityQuaternion

\* Vector3.applyQuaternion
applyQuaternion(v, q) ==
    <<(v[1] * q[1][1] + v[2] * q[2][1] + v[3] * q[3][1]) \div 2,
      (v[1] * q[1][2] + v[2] * q[2][2] + v[3] * q[3][2]) \div 2,
      (v[1] * q[1][3] + v[2] * q[2][3] + v[3] * q[3][3]) \div 2>>

RECURSIVE Gcd(_, _)
Gcd(a, b) == IF b = 0 THEN a ELSE Gcd(b, a % b)

\* Vector3.normalize, up to a positive factor: the shortest whole vector of
\* the same direction
Direction(v) ==
    LET d == Gcd(Gcd(Abs(v[1]), Abs(v[2])), Abs(v[3]))
    IN  IF d = 0 THEN v ELSE <<v[1] \div d, v[2] \div d, v[3] \div d>>

\* the dot product of two stored vectors, up to the square of the unit
WeightedDot(a, b, w) == w * a[1] * b[1] + a[2] * b[2] + a[3] * b[3]

\* new Vector3(0, 1, 0).cross(v) for a horizontal v, up to a positive factor
UpCross(v, w) == <<v[3], 0, -(w * v[1])>>

\* the rotation of v about the horizontal axis k by deg degrees (a multiple
\* of 90; a quarter turn only about a unit axis with w = 1)
AxisAngle(v, k, deg, w) ==
    LET kk == WeightedDot(k, k, w)
        kv == WeightedDot(k, v, w)
        c  == CosDeg(deg)
        s  == SinDeg(deg)
    IN  Add(Add(Scale(v, c), Scale(Cross(k, v), s)),
            <<(k[1] * kv * (1 - c)) \div kk, (k[2] * kv * (1 - c)) \div kk,
              (k[3] * kv * (1 - c)) \div kk>>)

\* Quaternion.setFromAxisAngle
setFromAxisAngle(k, deg, w) ==
    <<AxisAngle(<<2, 0, 0>>, k, deg, w), AxisAngle(<<0, 2, 0>>, k, deg, w),
      AxisAngle(<<0, 0, 2>>, k, deg, w)>>

\* Quaternion.multiply: a.multiply(b) turns by b, then by a
multiply(a, b) ==
    <<applyQuaternion(b[1], a), applyQuaternion(b[2], a), applyQuaternion(b[3], a)>>

\* Math.atan2(z, x) in degrees of a stored horizontal direction
Atan2Weighted(z, x, w) ==
    LET acute == CASE z = 0 -> 0
                   [] x = 0 -> 90
                   [] w = 1 /\ z * z = x * x -> 45
                   [] w = 3 /\ z * z = x * x -> 30
                   [] w = 3 /\ z * z = 9 * x * x -> 60
    IN  CASE x >= 0 /\ z >= 0 -> acute
          [] x < 0 /\ z >= 0  -> 180 - acute
          [] x < 0 /\ z < 0   -> acute - 180
          [] OTHER            -> -acute

-----------------------------------------------------------------------------
(* The shapes the turtle walks on in this model *)

PathShapes == {"cube", "dcSquare"}

getFaces(sh) ==
    CASE sh = "cube"       -> CubeFaces
      [] sh = "dcSquare"   -> DcSquareFaces
      [] sh = "dcTriangle" -> DcFaces(DC_TRIANGLE_VERTICES, TRIANGLE_INRADIUS)
      [] sh = "dcHexagon"  -> DcFaces(DC_HEXAGON_VERTICES, HEX_INRADIUS)

\* faces.find(f => f.index === index): the face, or none
FindFace(faces, index) ==
    IF \E i \in 1..Len(faces) : faces[i].index = index
    THEN <<faces[CHOOSE i \in 1..Len(faces) :
                    /\ faces[i].index = index
                    /\ \A j \in 1..(i - 1) : faces[j].index # index]>>
    ELSE <<>>

-----------------------------------------------------------------------------
(* The turtle on the surface (src/utils/turtle.ts 23-238)                   *)

NORMAL_OFFSET == 150

ADJACENT_TOLERANCE == 100

NUDGE == 10

EPSILON == 1

VERTEX_THRESHOLD == 500

MAX_ITERATIONS == 100

\* undefined / null, and a present value
Undefined == <<>>

Some(x) == <<x>>

VERTEX_MESSAGE == "Path reached a vertex"

offsetPoint(pos, face) == Add(pos, Scale(face.normal, NORMAL_OFFSET))

HasVertexNear(f, v) ==
    \E i \in 1..Len(f.vertices) :
        DistSq(f.vertices[i], v) < ADJACENT_TOLERANCE * ADJACENT_TOLERANCE

\* the first face other than currentFace that has both ends of the edge
getAdjacentFace(faces, currentFace, edgeV1, edgeV2) ==
    LET found == {i \in 1..Len(faces) :
                    /\ faces[i].index # currentFace.index
                    /\ HasVertexNear(faces[i], edgeV1)
                    /\ HasVertexNear(faces[i], edgeV2)}
    IN  IF found # {}
        THEN Some(faces[CHOOSE i \in found : \A j \in found : i <= j])
        ELSE Undefined

\* crossEdge: the heading turned about the edge by the angle between the two
\* normals, the face index set, the position nudged into the new face.
\* (a variant of crossEdge that leaves faceIndex as it is)
crossEdgeSameFace(state, fromFace, toFace, edgeV1, edgeV2) ==
    [faceIndex |-> fromFace.index,
     pos       |-> Add(state.pos,
                       Scale(IF Dot(Normalize(Cross(toFace.normal,
                                                    Normalize(Sub(edgeV2, edgeV1)))),
                                    Sub(toFace.center, state.pos)) < 0
                             THEN Negate(Normalize(Cross(toFace.normal,
                                                         Normalize(Sub(edgeV2, edgeV1)))))
                             ELSE Normalize(Cross(toFace.normal,
                                                  Normalize(Sub(edgeV2, edgeV1)))),
                             NUDGE)),
     heading   |-> state.heading]

crossEdge(state, fromFace, toFace, edgeV1, edgeV2) ==
    LET edgeAxis     == Normalize(Sub(edgeV2, edgeV1))
        cosAngle     == Dot(fromFace.normal, toFace.normal)
        cross        == Cross(fromFace.normal, toFace.normal)
        rotationSign == IF Dot(cross, edgeAxis) > 0 THEN 1 ELSE -1
        sinAngle     == rotationSign * AxisLength(cross)
        inwards0     == Normalize(Cross(toFace.normal, edgeAxis))
        toCenter     == Sub(toFace.center, state.pos)
        inwards      == IF Dot(inwards0, toCenter) < 0 THEN Negate(inwards0) ELSE inwards0
    IN  [faceIndex |-> toFace.index,
         pos       |-> Add(state.pos, Scale(inwards, NUDGE)),
         heading   |-> Rotate(state.heading, edgeAxis, cosAngle, sinAngle)]

\* findVertexHit: among the vertices ahead whose distance to the line of
\* travel is under the threshold, the first one with the least projection.
findVertexHit(face, pos, heading) ==
    LET projLen(i) == Dot(Sub(face.vertices[i], pos), heading)
        near == {i \in 1..Len(face.vertices) :
                    /\ projLen(i) > 0
                    /\ DistSq(Add(pos, Scale(heading, projLen(i))), face.vertices[i])
                          < VERTEX_THRESHOLD * VERTEX_THRESHOLD}
    IN  IF near # {}
        THEN LET b == CHOOSE i \in near :
                        \A j \in near : \/ projLen(i) < projLen(j)
                                        \/ projLen(i) = projLen(j) /\ i <= j
             IN  Some([t |-> projLen(b), vertex |-> face.vertices[b], index |-> b - 1])
        ELSE Undefined

\* findEdgeHit: among the edges the heading points out of, the first one
\* with the least distance t.
findEdgeHit(face, pos, heading) ==
    LET n        == Len(face.vertices)
        v1(i)    == face.vertices[i]
        v2(i)    == face.vertices[(i % n) + 1]
        outN(i)  == Normalize(Cross(Normalize(Sub(v2(i), v1(i))), face.normal))
        denom(i) == Dot(heading, outN(i))
        t(i)     == (-Dot(Sub(pos, v1(i)), outN(i))) \div denom(i)
        hits     == {i \in 1..n : denom(i) * EDGE_LENGTH > EPSILON /\ t(i) > -EPSILON}
    IN  IF hits # {}
        THEN LET b == CHOOSE i \in hits :
                        \A j \in hits : \/ t(i) < t(j)
                                        \/ t(i) = t(j) /\ i <= j
             IN  Some([t |-> t(b), edgeIndex |-> b - 1])
        ELSE Undefined

\* line 149: vertexHit && vertexHit.t <= (edgeHit?.t ?? Infinity) && vertexHit.t < remaining
VertexReached(vertexHit, edgeHit, remaining) ==
    /\ vertexHit # Undefined
    /\ edgeHit = Undefined \/ vertexHit[1].t <= edgeHit[1].t
    /\ vertexHit[1].t < remaining

\* the edge test with the landing on the edge counted as a hit
EdgeReachedInclusive(edgeHit, remaining) ==
    edgeHit # Undefined /\ edgeHit[1].t <= remaining

\* line 156: edgeHit && edgeHit.t < remaining
EdgeReached(edgeHit, remaining) ==
    edgeHit # Undefined /\ edgeHit[1].t < remaining

\* the remaining distance left as it was
ConsumeNothing(remaining, t) == remaining

\* line 159: remaining -= edgeHit.t
Consume(remaining, t) == remaining - t

\* lines 156-172: the turtle on the edge between v1 and v2 at pos; with a
\* neighbour it crosses, without one it stays and moveTurtle returns
CrossOrStay(m, f, pos, t, v1, v2, neighbor) ==
    IF neighbor # Undefined
    THEN LET crossed == crossEdge([m.state EXCEPT !.pos = pos], f, neighbor[1], v1, v2)
         IN  [m EXCEPT
                !.iterations = @ + 1,
                !.state = crossed,
                !.remaining = Consume(@, t),
                !.currentPath =
                    Append(Append(@, offsetPoint(pos, f)),
                           offsetPoint(crossed.pos, neighbor[1]))]
    ELSE [m EXCEPT !.iterations = @ + 1,
                   !.state = [m.state EXCEPT !.pos = pos],
                   !.remaining = Consume(@, t),
                   !.currentPath = Append(@, offsetPoint(pos, f)),
                   !.returned = TRUE]

\* lines 149-176: the turn on the face f, with the two hits found on it
MoveOnFace(m, f, vertexHit, edgeHit) ==
    LET state       == m.state
        moveHeading == Scale(state.heading, m.sign)
    IN  IF VertexReached(vertexHit, edgeHit, m.remaining)
        THEN LET pos == Add(state.pos, Scale(moveHeading, vertexHit[1].t))
             IN  [m EXCEPT !.iterations = @ + 1,
                           !.state.pos = pos,
                           !.currentPath = Append(@, offsetPoint(pos, f)),
                           !.message = Some(VERTEX_MESSAGE),
                           !.returned = TRUE]
        ELSE IF EdgeReached(edgeHit, m.remaining)
        THEN LET n  == Len(f.vertices)
                 v1 == f.vertices[edgeHit[1].edgeIndex + 1]
                 v2 == f.vertices[((edgeHit[1].edgeIndex + 1) % n) + 1]
             IN  CrossOrStay(m, f, Add(state.pos, Scale(moveHeading, edgeHit[1].t)),
                             edgeHit[1].t, v1, v2,
                             getAdjacentFace(m.faces, f, v1, v2))
        ELSE LET pos == Add(state.pos, Scale(moveHeading, m.remaining))
             IN  [m EXCEPT !.iterations = @ + 1,
                           !.state.pos = pos,
                           !.currentPath = Append(@, offsetPoint(pos, f)),
                           !.remaining = 0]

\* One turn of the while loop of moveTurtle (lines 139-177) on the record m
\* of the function's variables; returned is set by the return statements
\* and by the break.
MoveIteration(m) ==
    LET found == FindFace(m.faces, m.state.faceIndex)
    IN  IF found = Undefined
        THEN [m EXCEPT !.iterations = @ + 1, !.returned = TRUE]
        ELSE MoveOnFace(m, found[1],
                        findVertexHit(found[1], m.state.pos,
                                      Scale(m.state.heading, m.sign)),
                        findEdgeHit(found[1], m.state.pos,
                                    Scale(m.state.heading, m.sign)))

\* The while loop (line 138): turns are taken until a return, or until the
\* remaining distance or the iteration count ends the loop.
RECURSIVE MoveLoop(_)
MoveLoop(m) ==
    IF m.returned \/ ~(m.remaining > EPSILON /\ m.iterations < MAX_ITERATIONS)
    THEN m
    ELSE LET next == CHOOSE x \in {MoveIteration(m)} : TRUE
         IN  MoveLoop(next)

Sign(x) == IF x > 0 THEN 1 ELSE IF x < 0 THEN -1 ELSE 0

\* moveTurtle: the state and the path it leaves, and the message it returns
moveTurtle(state, distance, faces, currentPath) ==
    MoveLoop([state |-> state, remaining |-> Abs(distance), iterations |-> 0,
              sign |-> Sign(distance), faces |-> faces,
              currentPath |-> currentPath, message |-> Undefined, returned |-> FALSE])

-----------------------------------------------------------------------------
(* generatePath and generateFlatPath (src/utils/turtle.ts 70-129, 306-364)  *)

StartFace(sh) == FindFace(getFaces(sh), 1)[1]

\* towards the midpoint of the first edge of face 1
FaceHeading(f) ==
    LET midPointFirstEdge == Half(Add(f.vertices[1], f.vertices[2]))
    IN  Normalize(Sub(midPointFirstEdge, f.center))

InitialHeading(sh) == FaceHeading(StartFace(sh))

\* lines 86-94
PathInit(sh) ==
    [state       |-> [faceIndex |-> StartFace(sh).index,
                      pos       |-> StartFace(sh).center,
                      heading   |-> InitialHeading(sh)],
     segments    |-> <<>>,
     currentPath |-> <<offsetPoint(StartFace(sh).center, StartFace(sh))>>,
     error       |-> Undefined,
     halted      |-> FALSE]

\* a polyline is kept when it has a point
ClosableNonEmpty(path) == Len(path) > 0

\* lines 109 and 126: currentPath.length > 1
Closable(path) == Len(path) > 1

\* the error with the line after the command's
PathErrorNextLine(message, cmd) == [message |-> message, lineNumber |-> cmd.lineNumber + 1]

\* line 120
PathError(message, cmd) == [message |-> message, lineNumber |-> cmd.lineNumber]

\* the start command (lines 99-110) on the start face f, with the initial
\* heading
PathStart(g, cmd, f, initialHeading) ==
    LET right == Normalize(Cross(initialHeading, f.normal))
        pos   == Add(Add(f.center, Scale(initialHeading, cmd.value[1])),
                     Scale(right, cmd.value[2]))
    IN  [g EXCEPT !.state = [faceIndex |-> f.index, pos |-> pos,
                             heading |-> initialHeading],
                  !.segments = IF Closable(g.currentPath)
                               THEN Append(@, [points |-> g.currentPath]) ELSE @,
                  !.currentPath = <<offsetPoint(pos, f)>>]

\* One turn of the for loop of generatePath (lines 97-123); after the break
\* no command is read.
PathCmd(g, cmd, sh) ==
    IF g.halted THEN g
    ELSE IF cmd.type = "start"
    THEN PathStart(g, cmd, StartFace(sh), InitialHeading(sh))
    ELSE IF cmd.type \in {"lt", "rt"}
    THEN LET rotateAngle == IF cmd.type = "lt" THEN cmd.value[1] ELSE -cmd.value[1]
             found       == FindFace(getFaces(sh), g.state.faceIndex)
         IN  IF found # Undefined
             THEN [g EXCEPT !.state.heading =
                      Rotate(@, found[1].normal, CosDeg(rotateAngle), SinDeg(rotateAngle))]
             ELSE g
    ELSE LET dist == IF cmd.type = "fd" THEN cmd.value[1] ELSE -cmd.value[1]
             m    == moveTurtle(g.state, dist, getFaces(sh), g.currentPath)
         IN  [g EXCEPT !.state = m.state,
                       !.currentPath = m.currentPath,
                       !.error = IF m.message # Undefined
                                 THEN Some(PathError(m.message[1], cmd)) ELSE @,
                       !.halted = m.message # Undefined]

\* lines 126-128
PathReturn(g) ==
    [segments |-> IF Closable(g.currentPath)
                  THEN Append(g.segments, [points |-> g.currentPath]) ELSE g.segments,
     error    |-> g.error]

FLAT_START_HEIGHT == 200

FlatStartPos == <<0, FLAT_START_HEIGHT, 0>>

WorldNormal == <<0, -1, 0>>

\* the local heading turned by the initial quaternion, which is the identity
\* for both shapes
WorldHeading(sh) == Normalize(InitialHeading(sh))

\* lines 327-333
FlatInit(sh) ==
    [state       |-> [pos |-> FlatStartPos, heading |-> WorldHeading(sh)],
     segments    |-> <<>>,
     currentPath |-> <<FlatStartPos>>]

\* the start command (lines 336-349), with the initial heading in world space
FlatStart(f, cmd, heading) ==
    LET right == Normalize(Cross(heading, WorldNormal))
        pos   == Add(Add(FlatStartPos, Scale(heading, cmd.value[1])),
                     Scale(right, cmd.value[2]))
    IN  [state       |-> [pos |-> pos, heading |-> heading],
         segments    |-> IF Len(f.currentPath) > 0
                         THEN Append(f.segments, [points |-> f.currentPath])
                         ELSE f.segments,
         currentPath |-> <<pos>>]

\* One call of the forEach callback of generateFlatPath (lines 335-360)
FlatCmd(f, cmd, sh) ==
    IF cmd.type = "start"
    THEN FlatStart(f, cmd, WorldHeading(sh))
    ELSE IF cmd.type \in {"lt", "rt"}
    THEN LET angle == IF cmd.type = "lt" THEN cmd.value[1] ELSE -cmd.value[1]
         IN  [f EXCEPT !.state.heading =
                 Rotate(@, WorldNormal, CosDeg(angle), SinDeg(angle))]
    ELSE LET dist == IF cmd.type = "fd" THEN cmd.value[1] ELSE -cmd.value[1]
             pos  == Add(f.state.pos, Scale(f.state.heading, dist))
         IN  [f EXCEPT !.state.pos = pos, !.currentPath = Append(@, pos)]

\* lines 362-363
FlatReturn(f) ==
    IF Len(f.currentPath) > 0
    THEN Append(f.segments, [points |-> f.currentPath]) ELSE f.segments

-----------------------------------------------------------------------------
(* getMoveData.  Angles are whole degrees.  Math.round of a quotient that  *)
(* is exactly half way between two sectors is either of the two: in double *)
(* arithmetic a direction on the boundary of two sectors lands on either   *)
(* side of it (at the initial pose of dcHexagon, atan2 gives               *)
(* 59.99999999999999 degrees for one edge and -60.00000000000002 for       *)
(* another, and the quotients are 0.5 and 4.499999999999999).              *)

\* the % of JavaScript: the sign of the dividend
JsRem(x, m) == IF x >= 0 THEN x % m ELSE -((-x) % m)

\* let a = angle % (2 * Math.PI); if (a < 0) a += 2 * Math.PI
NormalizeAngle(ang) ==
    LET a == JsRem(ang, 360) IN IF a < 0 THEN a + 360 ELSE a

\* const shifted = a - Math.PI / 6; s = shifted < 0 ? shifted + 2 PI : shifted
Shifted(a) ==
    LET shifted == a - 30 IN IF shifted < 0 THEN shifted + 360 ELSE shifted

\* Math.round(num / den) for num >= 0, den > 0
RoundQuotient(num, den) ==
    IF (2 * num) % (2 * den) = den
    THEN {num \div den, num \div den + 1}
    ELSE {(2 * num + den) \div (2 * den)}

\* Math.round(s / width) % n
Sectors(s, width, n) == {r % n : r \in RoundQuotient(s, width)}

\* switch (sector) over the cases 0 .. Len(cases) - 1, with a default
Switch(sector, cases, default) ==
    IF sector \in 0..(Len(cases) - 1) THEN cases[sector + 1] ELSE default

Move(l, du, dv) == [label |-> l, delta |-> [u |-> du, v |-> dv]]

TRIANGULAR_CASES ==
    <<Move("-Z", 1, 1), Move("+Y", 0, 1), Move("-X", -1, 0),
      Move("+Z", -1, -1), Move("-Y", 0, -1), Move("+X", 1, 0)>>

octahedron_getMoveData(ang) ==
    {Switch(k, TRIANGULAR_CASES, Move("?", 0, 0)) :
        k \in Sectors(Shifted(NormalizeAngle(ang)), 60, 6)}

tetrahedron_getMoveData(ang) ==
    {Switch(k, TRIANGULAR_CASES, Move("?", 0, 0)) :
        k \in Sectors(Shifted(NormalizeAngle(ang)), 60, 6)}

icosahedron_getMoveData(ang) ==
    {Switch(k, TRIANGULAR_CASES, Move("?", 0, 0)) :
        k \in Sectors(Shifted(NormalizeAngle(ang)), 60, 6)}

\* the labels `E${sector + 1}`
DODECAHEDRON_CASES ==
    <<Move("E1", 0, 0), Move("E2", 0, 0), Move("E3", 0, 0), Move("E4", 0, 0),
      Move("E5", 0, 0)>>

dodecahedron_getMoveData(ang) ==
    {DODECAHEDRON_CASES[k + 1] : k \in Sectors(NormalizeAngle(ang), 72, 5)}

DC_TRIANGLE_CASES ==
    <<Move("FLIP-0", 1, 1), Move("FLIP-1", 0, 1), Move("FLIP-2", -1, 0),
      Move("FLIP-3", -1, -1), Move("FLIP-4", 0, -1), Move("FLIP-5", 1, 0)>>

dcTriangle_getMoveData(ang) ==
    {Switch(k, DC_TRIANGLE_CASES, Move("FLIP", 0, 0)) :
        k \in Sectors(Shifted(NormalizeAngle(ang)), 60, 6)}

DC_SQUARE_CASES ==
    <<Move("FLIP-E", 1, 0), Move("FLIP-N", 0, 1), Move("FLIP-W", -1, 0),
      Move("FLIP-S", 0, -1)>>

dcSquare_getMoveData(ang) ==
    {Switch(k, DC_SQUARE_CASES, Move("FLIP", 0, 0)) :
        k \in Sectors(NormalizeAngle(ang), 90, 4)}

DC_HEXAGON_CASES ==
    <<Move("FLIP-E", 1, 0), Move("FLIP-NE", 1, -1), Move("FLIP-NW", 0, -1),
      Move("FLIP-W", -1, 0), Move("FLIP-SW", -1, 1), Move("FLIP-SE", 0, 1)>>

dcHexagon_getMoveData(ang) ==
    {Switch(k, DC_HEXAGON_CASES, Move("FLIP", 0, 0)) :
        k \in Sectors(Shifted(NormalizeAngle(ang)), 60, 6)}

\* the square branch of getMoveData of constants.ts, which the cube uses
CUBE_CASES ==
    <<Move("+X", 1, 0), Move("+Z", 0, 1), Move("-X", -1, 0), Move("-Z", 0, -1)>>

cube_getMoveData(ang) ==
    {Switch(k, CUBE_CASES, Move("?", 0, 0)) : k \in Sectors(NormalizeAngle(ang), 90, 4)}

\* the shapes of the registry whose definition is at hand
MoveShapes ==
    {"octahedron", "tetrahedron", "icosahedron", "dodecahedron", "dcTriangle",
     "dcSquare", "dcHexagon"}

\* getPolyhedron(sh).getMoveData(ang): the results it can return
getMoveData(sh, ang) ==
    CASE sh = "octahedron"   -> octahedron_getMoveData(ang)
      [] sh = "tetrahedron"  -> tetrahedron_getMoveData(ang)
      [] sh = "icosahedron"  -> icosahedron_getMoveData(ang)
      [] sh = "dodecahedron" -> dodecahedron_getMoveData(ang)
      [] sh = "dcTriangle"   -> dcTriangle_getMoveData(ang)
      [] sh = "dcSquare"     -> dcSquare_getMoveData(ang)
      [] sh = "dcHexagon"    -> dcHexagon_getMoveData(ang)
      [] sh = "cube"         -> cube_getMoveData(ang)

\* the declared lattice configuration of each definition
movementSectors(sh) ==
    CASE sh \in {"octahedron", "tetrahedron", "icosahedron", "dcHexagon"} -> 6
      [] sh = "dodecahedron" -> 5
      [] sh = "dcSquare"     -> 4
      [] sh = "dcTriangle"   -> 3

\* in degrees
sectorAngle(sh) ==
    CASE sh \in {"octahedron", "tetrahedron", "icosahedron", "dcHexagon"} -> 60
      [] sh = "dodecahedron" -> 72
      [] sh = "dcSquare"     -> 90
      [] sh = "dcTriangle"   -> 120

-----------------------------------------------------------------------------
(* Simulation (src/polyhedra/index.ts): the roll targets of a pose         *)

SHARED_VERTEX_TOLERANCE == 10

RECURSIVE Flatten(_)
Flatten(ss) == IF ss = <<>> THEN <<>> ELSE Head(ss) \o Flatten(Tail(ss))

\* one face in world space (lines 100-107)
WorldFace(f, pos, quat) ==
    [index    |-> f.index,
     normal   |-> applyQuaternion(f.normal, quat),
     vertices |-> [j \in 1..Len(f.vertices) |->
                      Add(applyQuaternion(f.vertices[j], quat), pos)]]

\* the faces of the definition in world space (lines 99-108)
MapWorldFaces(faces, pos, quat) ==
    [i \in 1..Len(faces) |-> WorldFace(faces[i], pos, quat)]

WorldFaces(pos, quat, sh) == MapWorldFaces(getFaces(sh), pos, quat)

\* the face whose normal points most downward (lines 110-119): the first
\* one whose dot product with (0, -1, 0) exceeds -1 and all before it
BottomFaceIndex(worldFaces) ==
    LET down(i) == Dot(worldFaces[i].normal, <<0, -1, 0>>)
        n == Len(worldFaces)
    IN  IF \E i \in 1..n : down(i) > -1
        THEN CHOOSE i \in 1..n :
                /\ down(i) > -1
                /\ \A j \in 1..n : down(j) <= down(i)
                /\ \A j \in 1..(i - 1) : down(j) < down(i)
        ELSE 1

\* fv.distanceTo(v) < 0.001 for some vertex fv of the face
SharesVertex(f, v, w) ==
    \E j \in 1..Len(f.vertices) :
        WeightedDot(Sub(f.vertices[j], v), Sub(f.vertices[j], v), w)
            < SHARED_VERTEX_TOLERANCE * SHARED_VERTEX_TOLERANCE

\* lines 135-142: some face other than the bottom one has both ends of the edge
HasAdjacent(worldFaces, bottomFace, edgeV1, edgeV2, w) ==
    \E k \in 1..Len(worldFaces) :
        /\ worldFaces[k].index # bottomFace.index
        /\ SharesVertex(worldFaces[k], edgeV1, w)
        /\ SharesVertex(worldFaces[k], edgeV2, w)

\* lines 146-181: the target over the edge with midpoint pivot, rolled to
\* in the direction rollDirection
RollTarget(pivot, currentFloorCenter, rollDirection, w) ==
    [axis           |-> Direction(UpCross(rollDirection, w)),
     point          |-> pivot,
     targetCenter   |-> Add(currentFloorCenter,
                            Scale(Sub(pivot, currentFloorCenter), 2)),
     directionAngle |-> Atan2Weighted(rollDirection[3], rollDirection[1], w)]

\* (a variant of EdgeTarget that takes the first end of the edge as pivot)
EdgeTargetAtCorner(worldFaces, bottomFace, edgeV1, edgeV2, currentFloorCenter, w) ==
    IF ~HasAdjacent(worldFaces, bottomFace, edgeV1, edgeV2, w) THEN <<>>
    ELSE <<RollTarget(edgeV1, currentFloorCenter,
                      Direction(Sub(edgeV1, currentFloorCenter)), w)>>

\* One turn of the loop over the edges of the bottom face (lines 128-182)
EdgeTarget(worldFaces, bottomFace, edgeV1, edgeV2, currentFloorCenter, w) ==
    IF ~HasAdjacent(worldFaces, bottomFace, edgeV1, edgeV2, w) THEN <<>>
    ELSE <<RollTarget(Half(Add(edgeV1, edgeV2)), currentFloorCenter,
                      Direction(Sub(Half(Add(edgeV1, edgeV2)), currentFloorCenter)),
                      w)>>

\* lines 121-183: the targets of the edges of the bottom face
BottomTargets(worldFaces, bottomFace, pos, w) ==
    Flatten([i \in 1..Len(bottomFace.vertices) |->
                EdgeTarget(worldFaces, bottomFace, bottomFace.vertices[i],
                           bottomFace.vertices[(i % Len(bottomFace.vertices)) + 1],
                           <<pos[1], 0, pos[3]>>, w)])

FaceTargets(worldFaces, pos, w) ==
    BottomTargets(worldFaces, worldFaces[BottomFaceIndex(worldFaces)], pos, w)

\* updateTargets (lines 98-183): one target for each edge of the bottom face
\* that another face shares
updateTargets(pos, quat, sh) ==
    FaceTargets(WorldFaces(pos, quat, sh), pos, XWeight(sh))

\* (a variant of calculateFaceIndex that looks for the normal pointing most
\* upward)
calculateFaceIndexUp(quat, centers) ==
    LET up(i) == Dot(applyQuaternion(centers[i], quat), <<0, 1, 0>>)
        n == Len(centers)
    IN  CHOOSE i \in 1..n : \A j \in 1..n : up(j) <= up(i)

\* calculateFaceIndex (lines 185-197)
calculateFaceIndex(quat, centers) ==
    LET down(i) == Dot(applyQuaternion(centers[i], quat), <<0, -1, 0>>)
        n == Len(centers)
    IN  IF \E i \in 1..n : down(i) > -1
        THEN CHOOSE i \in 1..n :
                /\ down(i) > -1
                /\ \A j \in 1..n : down(j) <= down(i)
                /\ \A j \in 1..(i - 1) : down(j) < down(i)
        ELSE 1

\* the refs and the state of Simulation before the first roll (lines 38-54)
SimInit ==
    [isRolling     |-> FALSE,
     rollStartPos  |-> <<0, 0, 0>>,
     rollStartQuat |-> IdentityQuaternion,
     rollAxis      |-> <<0, 0, 0>>,
     rollPivot     |-> <<0, 0, 0>>,
     pendingMove   |-> Undefined]

-----------------------------------------------------------------------------
(* App: the history of steps (src/App.tsx 43-55, 131-155).  The orientation *)
(* label of a step is left out.                                             *)

\* faceIndex: 1 of the step createInitialHistory makes
initialFaceIndex(sh) == 1

createInitialHistory(sh) ==
    <<[position   |-> initialPosition(sh),
       quaternion |-> initialQuaternion(sh),
       faceIndex  |-> initialFaceIndex(sh),
       coordinate |-> [u |-> 0, v |-> 0],
       moveLabel  |-> "START",
       moveIndex  |-> 0,
       shape      |-> sh]>>

\* handleRollComplete: the new history
handleRollComplete(hist, stepIndex, sh, newPos, newQuat, moveLabel, delta, faceIndex) ==
    LET prevStep == hist[stepIndex + 1]
        newStep ==
            [position   |-> newPos,
             quaternion |-> newQuat,
             faceIndex  |-> faceIndex,
             coordinate |-> [u |-> prevStep.coordinate.u + delta.u,
                             v |-> prevStep.coordinate.v + delta.v],
             moveLabel  |-> moveLabel,
             moveIndex  |-> stepIndex + 1,
             shape      |-> sh]
    IN  SubSeq(hist, 1, stepIndex + 1) \o <<newStep>>

\* the state of the history, of Simulation and of the move lookup in the
\* specifications that do not roll
RollIdle(sh) ==
    /\ history = createInitialHistory(sh)
    /\ currentStepIndex = 0
    /\ sim = SimInit
    /\ rolls = 0

MoveIdle ==
    /\ defn = "octahedron"
    /\ inputAngle = 0
    /\ moveData = Undefined

ParseIdle ==
    /\ text = <<>>
    /\ lineIdx = 0
    /\ cmds = <<>>

\* the state of the face queries in the specifications that make none
FaceIdle ==
    /\ solid = "cube"
    /\ faceList = <<>>
    /\ calls = 0
    /\ lookup = <<>>
    /\ resting = <<>>

\* the state of the initialisation of the dodecahedron in the specifications
\* that do not follow it
DodIdle ==
    /\ walk = 0
    /\ faceSearch = [faces |-> <<>>, faceSet |-> {}]
    /\ table = <<>>
    /\ colors = <<>>
    /\ frames = <<>>
    /\ solved = <<>>
    /\ colorIndices = <<>>

CrossIdle == crossings = Undefined

LoopIdle == mv = Undefined /\ loopPc = "idle"

\* Simulation before any state update is scheduled and any animation starts
\* (src/polyhedra/index.ts 37-55)
SimIdle ==
    /\ anim = [isRollAnimating |-> FALSE, currentCrossingIndex |-> 0,
               rollAnimationCrossings |-> <<>>, timer |-> FALSE]
    /\ mesh = [position |-> history[1].position, quaternion |-> history[1].quaternion]
    /\ rollProgress = 0
    /\ updates = <<>>
    /\ reported = [onRollComplete |-> 0, onRollAnimationComplete |-> 0, animations |-> 0]

StepIdle == LoopIdle /\ SimIdle

GeomIdle == FaceIdle /\ DodIdle /\ CrossIdle /\ StepIdle

-----------------------------------------------------------------------------
(* The command runner: App.handleRunCommands and App.handleRollAnimation    *)
(* (src/App.tsx 157-209).  Both handlers hand the same parsed commands to   *)
(* generatePath and to generateFlatPath; the two loops share no state and   *)
(* are advanced together here, one command per step.                        *)

NoResult == [segments |-> <<>>, error |-> Undefined]

AppInit ==
    [pathSegments |-> <<>>, flatPathSegments |-> <<>>, pathError |-> Undefined,
     thrown |-> Undefined]

\* the state of the path variables in the specifications that do not run
\* the command runner
RunnerIdle ==
    /\ commands = <<>>
    /\ gp = PathInit("cube")
    /\ fp = FlatInit("cube")
    /\ pc = "loop"
    /\ result = NoResult
    /\ flatSegments = <<>>
    /\ app = AppInit

\* Commands, values in units of 1/10000: start 0.48 to the side of the centre
\* of face 1 (0.02 short of the edge, in line with a vertex); fd and
\* bk by 0.5 (from the centre, exactly onto the edge), by 1.2 (across one
\* edge) and fd by 100 (more edges than the loop will cross); quarter turns.
CmdSet ==
    { [type |-> "start", value |-> <<0, 4800>>],
      [type |-> "fd", value |-> <<5000>>],
      [type |-> "fd", value |-> <<12000>>],
      [type |-> "fd", value |-> <<1000000>>],
      [type |-> "bk", value |-> <<12000>>],
      [type |-> "lt", value |-> <<90>>],
      [type |-> "rt", value |-> <<90>>] }

\* the line number of the next command: the first command is on line 1 or 2,
\* each later one on the line after the one before
NextLineNumbers ==
    IF commands = <<>> THEN {1, 2} ELSE {commands[Len(commands)].lineNumber + 1}

InitPath ==
    /\ shape \in PathShapes
    /\ commands = <<>>
    /\ gp = PathInit(shape)
    /\ fp = FlatInit(shape)
    /\ pc = "loop"
    /\ result = NoResult
    /\ flatSegments = <<>>
    /\ app = AppInit
    /\ ParseIdle
    /\ RollIdle(shape)
    /\ MoveIdle
    /\ GeomIdle

\* both generators read the next command
Interpret ==
    /\ pc = "loop"
    /\ Len(commands) < MaxCmds
    /\ \E c \in CmdSet, ln \in NextLineNumbers :
          LET cmd == [type |-> c.type, value |-> c.value, lineNumber |-> ln]
          IN  /\ commands' = Append(commands, cmd)
              /\ gp' = PathCmd(gp, cmd, shape)
              /\ fp' = FlatCmd(fp, cmd, shape)
    /\ UNCHANGED <<shape, pc, result, flatSegments, app, parseVars, rollVars, moveVars, geomVars>>

\* the command list is exhausted: both generators return
Return ==
    /\ pc = "loop"
    /\ result' = PathReturn(gp)
    /\ flatSegments' = FlatReturn(fp)
    /\ pc' = "returned"
    /\ UNCHANGED <<shape, commands, gp, fp, app, parseVars, rollVars, moveVars, geomVars>>

\* handleRunCommands from the return of the generators on (lines 161-163)
HandleRunCommands ==
    /\ pc = "returned"
    /\ app' = [app EXCEPT !.pathSegments = result.segments,
                          !.flatPathSegments = flatSegments,
                          !.pathError = result.error]
    /\ pc' = "handled"
    /\ UNCHANGED <<shape, commands, gp, fp, result, flatSegments, parseVars, rollVars, moveVars, geomVars>>

\* handleRollAnimation (lines 166-209): the reset of the history before the
\* generators run, and from their return on the state updates of lines
\* 178-180 and result.edgeRolls.map(...), which throws a TypeError when
\* result has no edgeRolls
HandleRollAnimation ==
    /\ pc = "returned"
    /\ history' = createInitialHistory(shape)
    /\ currentStepIndex' = 0
    /\ app' = [app EXCEPT !.pathSegments = result.segments,
                          !.flatPathSegments = flatSegments,
                          !.pathError = result.error,
                          !.thrown = IF "edgeRolls" \in DOMAIN result
                                     THEN Undefined ELSE Some("TypeError")]
    /\ pc' = "handled"
    /\ UNCHANGED <<shape, commands, gp, fp, result, flatSegments, sim, rolls,
                   parseVars, moveVars, geomVars>>

NextPath == Interpret \/ Return \/ HandleRunCommands \/ HandleRollAnimation

SpecPath == InitPath /\ [][NextPath]_vars

-----------------------------------------------------------------------------
(* Properties of generatePath and generateFlatPath                         *)

\* a step in which the generators read a command, and that command
ReadsCommand == Len(commands') = Len(commands) + 1

NewCmd == commands'[Len(commands')]

\* a step in which generatePath runs moveTurtle for an fd or bk command
MovesTurtle == ReadsCommand /\ ~gp.halted /\ NewCmd.type \in {"fd", "bk"}

\* the direction of travel of the command read, on the face the turtle is on
TravelHeading == Scale(gp.state.heading, IF NewCmd.type = "fd" THEN 1 ELSE -1)

CurrentFace == FindFace(getFaces(shape), gp.state.faceIndex)[1]

\* the points the step added to the current polyline, after its last old point
StepPoints == SubSeq(gp'.currentPath, Len(gp.currentPath), Len(gp'.currentPath))

\* the length of a piece along a coordinate axis
PieceLength(a, b) == AxisLength(Sub(b, a))

\* The points of a walk come in pairs: each piece walked on a face runs from
\* an odd point to the next even one (the steps from an even point to the
\* next odd one are the changes of offset and the nudges at the edges).
Walked(q) ==
    LET sums[j \in 0..(Len(q) \div 2)] ==
            IF j = 0 THEN 0 ELSE sums[j - 1] + PieceLength(q[2 * j - 1], q[2 * j])
    IN  sums[Len(q) \div 2]

\* the distance from the turtle to the edge of its (square) face ahead
EdgeDistAhead ==
    EDGE_LENGTH \div 2 - Dot(Sub(gp.state.pos, CurrentFace.center), TravelHeading)

\* the face on the other side of the edge ahead: on the cube the face whose
\* outward normal is the direction of travel, on the doubly covered square
\* the other face
NeighbourAhead ==
    IF shape = "cube"
    THEN CHOOSE i \in 1..6 : CUBE_FACE_CENTERS[i] = TravelHeading
    ELSE 3 - gp.state.faceIndex

\* some vertex of the shape lies within the vertex threshold of p once the
\* offset along a face normal is taken off
AtVertexApproach(p) ==
    \E i \in 1..Len(getFaces(shape)) :
        LET f == getFaces(shape)[i]
        IN  \E k \in 1..Len(f.vertices) :
                DistSq(Sub(p, Scale(f.normal, NORMAL_OFFSET)), f.vertices[k])
                    < VERTEX_THRESHOLD * VERTEX_THRESHOLD

\* a vertex of the current face lies ahead of the turtle, nearer than d and
\* within the vertex threshold of its line of travel
VertexAhead(d) ==
    \E k \in 1..Len(CurrentFace.vertices) :
        LET toVertex == Sub(CurrentFace.vertices[k], gp.state.pos)
            along    == Dot(toVertex, TravelHeading)
        IN  /\ along > 0
            /\ along < d
            /\ AxisLength(Cross(toVertex, TravelHeading)) < VERTEX_THRESHOLD

C3_State ==
    /\ gp.error # Undefined =>
          /\ gp.error[1].message = VERTEX_MESSAGE
          /\ \E k \in 1..Len(commands) :
                /\ commands[k].type \in {"fd", "bk"}
                /\ commands[k].lineNumber = gp.error[1].lineNumber
          /\ Len(gp.currentPath) >= 2
          /\ AtVertexApproach(gp.currentPath[Len(gp.currentPath)])
    /\ pc # "loop" =>
          /\ result.error = gp.error
          /\ gp.error # Undefined =>
                result.segments = Append(gp.segments, [points |-> gp.currentPath])

C3_Step ==
    /\ ReadsCommand /\ gp.error # Undefined => gp' = gp
    /\ ReadsCommand /\ gp.error = Undefined /\ gp'.error # Undefined =>
          /\ NewCmd.type \in {"fd", "bk"}
          /\ gp'.error[1].lineNumber = NewCmd.lineNumber
          /\ gp'.segments = gp.segments
          /\ Len(gp'.currentPath) > Len(gp.currentPath)
          /\ SubSeq(gp'.currentPath, 1, Len(gp.currentPath)) = gp.currentPath
    /\ MovesTurtle /\ VertexAhead(NewCmd.value[1]) => gp'.error # Undefined

\* C3: an fd or bk that reaches a vertex sets the error 'Path reached a
\* vertex' with the line number of that command; the segments closed before
\* are kept as they were, the current polyline, which ends at the vertex
\* approach point, is returned as the last segment, and no later command
\* changes anything; the error is set by nothing else.
C3_VertexHalt == [](C3_State) /\ [][C3_Step]_vars

\* C3 witness: the third command, on line 4, reached a vertex; one segment
\* was closed before it and the halted polyline is returned as the second.
C3_Witness ==
    /\ pc = "returned"
    /\ Len(commands) = 3
    /\ result.error = Some([message |-> VERTEX_MESSAGE, lineNumber |-> 4])
    /\ Len(result.segments) = 2

\* C4: every segment kept or returned by generatePath has at least 2 points,
\* and a command list made only of start commands yields no segment.
C4_SegmentsHaveTwoPoints ==
    /\ \A i \in 1..Len(gp.segments) : Len(gp.segments[i].points) >= 2
    /\ pc # "loop" =>
          /\ \A i \in 1..Len(result.segments) : Len(result.segments[i].points) >= 2
          /\ (\A k \in 1..Len(commands) : commands[k].type = "start") =>
                result.segments = <<>>

\* C4 witness: a list of two start commands has returned no segment.
C4_Witness ==
    /\ pc = "returned"
    /\ Len(commands) = 2
    /\ \A k \in 1..Len(commands) : commands[k].type = "start"
    /\ result.segments = <<>>

\* C5: the result of generatePath has an edgeRolls field, so that the
\* handler's result.edgeRolls.map(...) does not throw.
C5_EdgeRollsReturned ==
    /\ pc # "loop" => "edgeRolls" \in DOMAIN result
    /\ app.thrown = Undefined

C7_CrossesOnLanding ==
    [][MovesTurtle /\ NewCmd.value[1] = EdgeDistAhead =>
          gp'.state.faceIndex = NeighbourAhead]_vars

\* C7: a move that lands exactly on the edge ahead leaves the turtle on the
\* edge, on the face it was on, with no error; a move that goes beyond the
\* edge ahead, by no more than the width of the next face, and reaches no
\* vertex leaves the turtle on the neighbouring face.
C7_CrossesBeyondEdge ==
    [][/\ MovesTurtle /\ NewCmd.value[1] = EdgeDistAhead =>
            /\ gp'.state.faceIndex = gp.state.faceIndex
            /\ gp'.error = Undefined
            /\ Dot(Sub(gp'.state.pos, CurrentFace.center), TravelHeading)
                  = EDGE_LENGTH \div 2
       /\ (/\ MovesTurtle
           /\ NewCmd.value[1] > EdgeDistAhead + EPSILON
           /\ NewCmd.value[1] <= EdgeDistAhead + EDGE_LENGTH - NUDGE
           /\ gp'.error = Undefined) =>
            gp'.state.faceIndex = NeighbourAhead]_vars

\* C7 witness: fd by 0.5 from the centre of face 1 has left the turtle on
\* the edge of face 1, and the next fd by 0.5 has taken it to another face.
C7_Witness ==
    /\ Len(commands) = 2
    /\ commands[1].type = "fd" /\ commands[1].value = <<5000>>
    /\ commands[2].type = "fd" /\ commands[2].value = <<5000>>
    /\ Len(gp.currentPath) = 5
    /\ gp.state.faceIndex # 1

\* C8: the two generators return the same number of segments, and each fd
\* or bk adds the same length to both paths.
C8_SamePaths ==
    /\ [](pc # "loop" => Len(result.segments) = Len(flatSegments))
    /\ [][ReadsCommand /\ NewCmd.type \in {"fd", "bk"} =>
            Walked(StepPoints) =
                PieceLength(fp.state.pos, fp'.state.pos)]_vars

-----------------------------------------------------------------------------
(* parseCommands (src/utils/turtle.ts 5-21)                                *)

NL == "\n"

WhiteSpace == {" ", "\t", "\r"}

Digits == {"0", "1", "2", "3", "4", "5", "6", "7", "8", "9"}

DigitVal(c) ==
    CASE c = "0" -> 0 [] c = "1" -> 1 [] c = "2" -> 2 [] c = "3" -> 3
      [] c = "4" -> 4 [] c = "5" -> 5 [] c = "6" -> 6 [] c = "7" -> 7
      [] c = "8" -> 8 [] c = "9" -> 9

\* String.prototype.toLowerCase on one character (the letters the inputs use)
LowerChar(c) ==
    CASE c = "F" -> "f" [] c = "D" -> "d" [] c = "B" -> "b" [] c = "K" -> "k"
      [] c = "L" -> "l" [] c = "T" -> "t" [] c = "R" -> "r" [] c = "S" -> "s"
      [] c = "A" -> "a" [] c = "G" -> "g" [] c = "O" -> "o" [] c = "X" -> "x"
      [] OTHER -> c

ToLowerCase(s) == [i \in 1..Len(s) |-> LowerChar(s[i])]

\* the longest suffix of s that does not start with a character of set
RECURSIVE DropLeading(_, _)
DropLeading(s, set) ==
    IF s # <<>> /\ Head(s) \in set THEN DropLeading(Tail(s), set) ELSE s

RECURSIVE DropTrailing(_, _)
DropTrailing(s, set) ==
    IF s # <<>> /\ s[Len(s)] \in set
    THEN DropTrailing(SubSeq(s, 1, Len(s) - 1), set) ELSE s

\* String.prototype.trim
Trim(s) == DropTrailing(DropLeading(s, WhiteSpace), WhiteSpace)

\* String.prototype.split for a separator class: the pieces between
\* separators; with greedy = TRUE a run of separators is one separator (the
\* regular expression /\s+/).  Splitting the empty string yields one empty
\* piece.
RECURSIVE SplitAt(_, _, _, _)
SplitAt(s, seps, greedy, cur) ==
    IF s = <<>> THEN <<cur>>
    ELSE IF Head(s) \in seps
         THEN <<cur>> \o SplitAt(IF greedy THEN DropLeading(Tail(s), seps) ELSE Tail(s),
                                 seps, greedy, <<>>)
         ELSE SplitAt(Tail(s), seps, greedy, Append(cur, Head(s)))

SplitLines(t) == SplitAt(t, {NL}, FALSE, <<>>)

SplitWhitespace(s) == SplitAt(s, WhiteSpace, TRUE, <<>>)

\* A JavaScript number: NaN, or a whole number.
NaN == [nan |-> TRUE, num |-> 0]

Num(n) == [nan |-> FALSE, num |-> n]

\* the value of the longest prefix of s made of digits, and whether there is one
RECURSIVE DigitPrefix(_, _, _)
DigitPrefix(s, acc, any) ==
    IF s # <<>> /\ Head(s) \in Digits
    THEN DigitPrefix(Tail(s), 10 * acc + DigitVal(Head(s)), TRUE)
    ELSE [some |-> any, num |-> acc]

\* parseFloat on the model's tokens (an optional sign, then digits): the
\* longest numeric prefix, NaN when there is none.
ParseFloat(s) ==
    LET neg  == s # <<>> /\ Head(s) = "-"
        body == IF s # <<>> /\ Head(s) \in {"-", "+"} THEN Tail(s) ELSE s
        p    == DigitPrefix(body, 0, FALSE)
    IN  IF p.some THEN Num(IF neg THEN -p.num ELSE p.num) ELSE NaN

IsNaN(v) == v.nan

KW_START == <<"s", "t", "a", "r", "t">>

KW_MOVES == {<<"f", "d">>, <<"b", "k">>, <<"l", "t">>, <<"r", "t">>}

\* ParseLine with the 0-based index stored as the line number: a faulty
\* variant, which the line-number property must reject.
ParseLineZeroBased(line, idx) ==
    LET parts == SplitWhitespace(ToLowerCase(Trim(line)))
    IN  IF Len(parts) < 2 THEN <<>>
        ELSE IF parts[1] = KW_START /\ Len(parts) >= 3
             THEN <<[type |-> parts[1],
                     value |-> <<ParseFloat(parts[2]), ParseFloat(parts[3])>>,
                     lineNumber |-> idx]>>
        ELSE IF parts[1] \in KW_MOVES
             THEN <<[type |-> parts[1],
                     value |-> <<IF IsNaN(ParseFloat(parts[2])) THEN Num(0)
                                 ELSE ParseFloat(parts[2])>>,
                     lineNumber |-> idx]>>
        ELSE <<>>

\* The body of the forEach callback (lines 8-19): the commands (none or one)
\* that line number idx (0-based) pushes.  A command's value is the pair of
\* coordinates of start, or the one value of fd/bk/lt/rt.
ParseLine(line, idx) ==
    LET parts == SplitWhitespace(ToLowerCase(Trim(line)))
        cmd   == parts[1]
        val   == ParseFloat(parts[2])
        lineNumber == idx + 1
    IN  IF Len(parts) < 2 THEN <<>>
        ELSE IF cmd = KW_START /\ Len(parts) >= 3
             THEN <<[type |-> cmd,
                     value |-> <<ParseFloat(parts[2]), ParseFloat(parts[3])>>,
                     lineNumber |-> lineNumber]>>
        ELSE IF cmd \in KW_MOVES
             THEN <<[type |-> cmd,
                     value |-> <<IF IsNaN(val) THEN Num(0) ELSE val>>,
                     lineNumber |-> lineNumber]>>
        ELSE <<>>

\* text.split('\n') and the forEach over it: one step per line.
ForEachLine ==
    /\ lineIdx < Len(SplitLines(text))
    /\ cmds' = cmds \o ParseLine(SplitLines(text)[lineIdx + 1], lineIdx)
    /\ lineIdx' = lineIdx + 1
    /\ UNCHANGED <<text, pathVars, rollVars, moveVars, geomVars>>

\* Input lines: blank, only white space, a single token, an unknown keyword,
\* the four moves (one padded and in capitals, one separated by a tab, one
\* with a negative value, one with a value that is not a number), start with
\* two coordinates, with one, and with a coordinate that is not a number.
LineSet ==
    { <<>>,
      <<" ">>,
      <<"f", "d">>,
      <<"g", "o", " ", "5">>,
      <<"f", "d", " ", "2">>,
      <<" ", "F", "d", " ", " ", "1", "2", " ">>,
      <<"l", "t", "\t", "9">>,
      <<"b", "k", " ", "-", "1">>,
      <<"r", "t", " ", "x">>,
      <<"s", "t", "a", "r", "t", " ", "1", " ", "2">>,
      <<"S", "T", "A", "R", "T", " ", "1">>,
      <<"s", "t", "a", "r", "t", " ", "x", " ", "1">> }

RECURSIVE JoinLines(_)
JoinLines(ls) ==
    IF Len(ls) = 1 THEN ls[1] ELSE ls[1] \o <<NL>> \o JoinLines(Tail(ls))

InitParse ==
    /\ \E n \in 1..MaxLines : \E ls \in [1..n -> LineSet] : text = JoinLines(ls)
    /\ lineIdx = 0
    /\ cmds = <<>>
    /\ shape = "cube"
    /\ RunnerIdle
    /\ RollIdle("cube")
    /\ MoveIdle
    /\ GeomIdle

NextParse == ForEachLine

SpecParse == InitParse /\ [][NextParse]_vars

-----------------------------------------------------------------------------
(* Properties of parseCommands                                             *)

\* The lines of the text, read off the positions of its line breaks.
BreakPos == {0} \cup {i \in 1..Len(text) : text[i] = NL} \cup {Len(text) + 1}

NthBreak(k) == CHOOSE p \in BreakPos : Cardinality({q \in BreakPos : q < p}) = k

LineCount == Cardinality(BreakPos) - 1

LineAt(i) == SubSeq(text, NthBreak(i - 1) + 1, NthBreak(i) - 1)

\* The words of a line: its maximal runs of characters that are not white
\* space, as pairs <<first, last>> of positions.
WordSpans(l) ==
    { sp \in (1..Len(l)) \X (1..Len(l)) :
        /\ sp[1] <= sp[2]
        /\ \A i \in sp[1]..sp[2] : l[i] \notin WhiteSpace
        /\ sp[1] = 1 \/ l[sp[1] - 1] \in WhiteSpace
        /\ sp[2] = Len(l) \/ l[sp[2] + 1] \in WhiteSpace }

FirstWord(l) ==
    LET sp == CHOOSE w \in WordSpans(l) : \A o \in WordSpans(l) : w[1] <= o[1]
    IN  SubSeq(l, sp[1], sp[2])

SameLetters(w, kw) ==
    /\ Len(w) = Len(kw)
    /\ \A i \in 1..Len(w) : w[i] = kw[i] \/ LowerChar(w[i]) = kw[i]

\* The keyword of a well-formed line, <<>> for every other line.
KeywordOf(l) ==
    IF Cardinality(WordSpans(l)) < 2 THEN <<>>
    ELSE IF SameLetters(FirstWord(l), KW_START)
         THEN IF Cardinality(WordSpans(l)) >= 3 THEN KW_START ELSE <<>>
    ELSE IF \E kw \in KW_MOVES : SameLetters(FirstWord(l), kw)
         THEN CHOOSE kw \in KW_MOVES : SameLetters(FirstWord(l), kw)
    ELSE <<>>

WellFormedUpTo(n) == {i \in 1..n : KeywordOf(LineAt(i)) # <<>>}

\* C1: the commands pushed after any number of lines are, in order, one per
\* well-formed line read so far and none for the other lines; each carries
\* the keyword of its line in lower case and the 1-based number of that line
\* in the text, skipped lines counted.
C1_OneCommandPerLine ==
    LET wf == WellFormedUpTo(lineIdx)
    IN  /\ lineIdx <= LineCount
        /\ Len(cmds) = Cardinality(wf)
        /\ \A k \in 1..Len(cmds) :
              /\ cmds[k].lineNumber \in wf
              /\ Cardinality({i \in wf : i < cmds[k].lineNumber}) = k - 1
              /\ cmds[k].type = KeywordOf(LineAt(cmds[k].lineNumber))

\* C1 witness: the whole text is read, its first line was skipped and its
\* second line, written in capitals, gave the only command.
C1_Witness ==
    /\ lineIdx = LineCount
    /\ lineIdx = 2
    /\ Len(cmds) = 1
    /\ cmds[1].lineNumber = 2
    /\ LineAt(2) # ToLowerCase(LineAt(2))

\* C2: no command carries a value that is not a number.
C2_NoNaN ==
    \A k \in 1..Len(cmds) : \A j \in 1..Len(cmds[k].value) : ~IsNaN(cmds[k].value[j])

-----------------------------------------------------------------------------
(* Rolling: a click on a roll target, the frame that completes the roll,    *)
(* and a jump to a step of the history                                      *)

MaxRolls == 2

currentStep == history[currentStepIndex + 1]

\* the targets state, which the effect of lines 90-96 sets from the pose of
\* the current step whenever no roll is under way
targets == updateTargets(currentStep.position, currentStep.quaternion, shape)

InitRoll ==
    /\ shape \in RollShapes
    /\ RunnerIdle
    /\ ParseIdle
    /\ RollIdle(shape)
    /\ MoveIdle
    /\ GeomIdle

\* handleRoll and initiateRoll (index.ts 199-209, 253-257)
HandleRoll ==
    /\ ~sim.isRolling
    /\ rolls < MaxRolls
    /\ rolls' = rolls + 1
    /\ \E target \in Range(targets) :
        \E md \in getMoveData(shape, target.directionAngle) :
            sim' = [isRolling     |-> TRUE,
                    rollStartPos  |-> currentStep.position,
                    rollStartQuat |-> currentStep.quaternion,
                    rollAxis      |-> target.axis,
                    rollPivot     |-> target.point,
                    pendingMove   |-> Some(md)]
    /\ UNCHANGED <<history, currentStepIndex, parseVars, pathVars, moveVars, geomVars>>

\* useFrame on the frame on which rollProgress reaches 1 (index.ts 259-293),
\* with the call of onRollComplete = handleRollComplete (App.tsx 131-150)
RollFrame ==
    /\ sim.isRolling
    /\ LET qRot == setFromAxisAngle(sim.rollAxis, rollAngle(shape), XWeight(shape))
           newQuat == multiply(qRot, sim.rollStartQuat)
           vecToCenter == applyQuaternion(Sub(sim.rollStartPos, sim.rollPivot), qRot)
           newPos == Add(sim.rollPivot, vecToCenter)
           finalFace == calculateFaceIndex(newQuat, rollFaceCenters(shape))
       IN  /\ sim' = [sim EXCEPT !.isRolling = FALSE]
           /\ IF sim.pendingMove # Undefined
              THEN /\ history' = handleRollComplete(history, currentStepIndex, shape,
                                     newPos, newQuat, sim.pendingMove[1].label,
                                     sim.pendingMove[1].delta, finalFace)
                   /\ currentStepIndex' = Len(history') - 1
              ELSE UNCHANGED <<history, currentStepIndex>>
    /\ UNCHANGED <<rolls, parseVars, pathVars, moveVars, geomVars>>

\* jumpToStep (App.tsx 152-155)
JumpToStep ==
    /\ \E index \in 0..(Len(history) - 1) :
          /\ shape' = IF history[index + 1].shape # shape
                      THEN history[index + 1].shape ELSE shape
          /\ currentStepIndex' = index
    /\ UNCHANGED <<history, sim, rolls, parseVars, commands, gp, fp, pc, result,
                   flatSegments, app, moveVars, geomVars>>

NextRoll == HandleRoll \/ RollFrame \/ JumpToStep

SpecRoll == InitRoll /\ [][NextRoll]_vars

\* the floor cell of a pose: where its centre lies over the floor
FloorCell(step) == <<step.position[1], step.position[3]>>

\* C9: whenever the current step of the history stands on the floor cell of
\* the first step, its lattice coordinate, the sum of the getMoveData deltas
\* of the rolls that led to it, is (0,0).
C9_LoopsSumToZero ==
    FloorCell(currentStep) = FloorCell(history[1])
        => currentStep.coordinate = [u |-> 0, v |-> 0]

-----------------------------------------------------------------------------
(* The move lookup on its own: getMoveData of every definition at hand, on *)
(* angles below zero and beyond a full turn                                *)

MaxAngle == 720

AngleSet == {a \in (-MaxAngle)..MaxAngle : a % 3 = 0}

InitMove ==
    /\ defn \in MoveShapes
    /\ inputAngle \in AngleSet
    /\ moveData = Undefined
    /\ shape = "cube"
    /\ RunnerIdle
    /\ ParseIdle
    /\ RollIdle("cube")
    /\ GeomIdle

GetMoveData ==
    /\ moveData = Undefined
    /\ \E md \in getMoveData(defn, inputAngle) : moveData' = Some(md)
    /\ UNCHANGED <<defn, inputAngle, parseVars, pathVars, rollVars, geomVars>>

NextMove == GetMoveData

SpecMove == InitMove /\ [][NextMove]_vars

\* the cases of the definition's switch, in the order of their sector
Cases(sh) ==
    CASE sh \in {"octahedron", "tetrahedron", "icosahedron"} -> TRIANGULAR_CASES
      [] sh = "dodecahedron" -> DODECAHEDRON_CASES
      [] sh = "dcTriangle"   -> DC_TRIANGLE_CASES
      [] sh = "dcSquare"     -> DC_SQUARE_CASES
      [] sh = "dcHexagon"    -> DC_HEXAGON_CASES

\* the angle the definition divides into sectors: shifted by 30 degrees on
\* the triangular and hexagonal lattices
SectorInput(sh, ang) ==
    IF sh \in {"dodecahedron", "dcSquare"}
    THEN NormalizeAngle(ang) ELSE Shifted(NormalizeAngle(ang))

\* C10: the move returned is the case of the sector nearest to the angle
\* among the declared movementSectors sectors of width sectorAngle, its
\* index taken modulo movementSectors, and is never the fallback entry.
C10_DeclaredSectors ==
    moveData # Undefined =>
        /\ \E k \in Sectors(SectorInput(defn, inputAngle), sectorAngle(defn),
                            movementSectors(defn)) :
              moveData[1] = Cases(defn)[k + 1]
        /\ moveData[1].label \notin {"?", "FLIP"}

-----------------------------------------------------------------------------
(* Exact coordinates for the solids whose vertex tables hold the golden     *)
(* ratio (src/polyhedra/dodecahedron.ts 6-7, src/App.tsx 709).  A number is *)
(* a pair <<a, b>> standing for a + b*phi, phi = (1 + sqrt(5))/2, so that   *)
(* phi*phi = phi + 1 and 1/phi = phi - 1; a whole number n is <<n, 0>>.     *)
(* An exact vector is a triple of such numbers in a unit of length that     *)
(* each solid names.                                                        *)

G(n) == <<n, 0>>

phi == <<0, 1>>

invPhi == <<-1, 1>>

GAdd(x, y) == <<x[1] + y[1], x[2] + y[2]>>

GSub(x, y) == <<x[1] - y[1], x[2] - y[2]>>

GNeg(x) == <<-x[1], -x[2]>>

GMul(x, y) == <<x[1] * y[1] + x[2] * y[2], x[1] * y[2] + x[2] * y[1] + x[2] * y[2]>>

\* the sign of m/n - [a; 4, 4, 4, ...] for whole m, n > 0, where
\* [2; 4, 4, ...] = sqrt(5) and [4; 4, 4, ...] = 2 + sqrt(5): the comparison
\* of m with n*sqrt(5) without squaring
RECURSIVE CompareRoot(_, _, _)
CompareRoot(m, n, a) ==
    CASE m \div n > a -> 1
      [] m \div n < a -> -1
      [] m % n = 0    -> -1
      [] OTHER        -> -CompareRoot(n, m % n, 4)

\* the sign of a + b*phi = ((2a + b) + b*sqrt(5))/2
GSign(x) ==
    LET p == 2 * x[1] + x[2]
        q == x[2]
    IN  CASE p = 0 /\ q = 0   -> 0
          [] p >= 0 /\ q >= 0 -> 1
          [] p <= 0 /\ q <= 0 -> -1
          [] p > 0 /\ q < 0   -> CompareRoot(p, -q, 2)
          [] OTHER            -> -CompareRoot(-p, q, 2)

GLess(x, y) == GSign(GSub(x, y)) < 0

\* Math.sign
SignOf(n) == CASE n > 0 -> 1 [] n < 0 -> -1 [] OTHER -> 0

\* new Vector3(x, y, z) of whole coordinates
GVec(v) == <<G(v[1]), G(v[2]), G(v[3])>>

XAdd(a, b) == <<GAdd(a[1], b[1]), GAdd(a[2], b[2]), GAdd(a[3], b[3])>>

XSub(a, b) == <<GSub(a[1], b[1]), GSub(a[2], b[2]), GSub(a[3], b[3])>>

XScale(v, k) == <<GMul(v[1], k), GMul(v[2], k), GMul(v[3], k)>>

XDot(a, b) == GAdd(GAdd(GMul(a[1], b[1]), GMul(a[2], b[2])), GMul(a[3], b[3]))

XCross(a, b) ==
    <<GSub(GMul(a[2], b[3]), GMul(a[3], b[2])),
      GSub(GMul(a[3], b[1]), GMul(a[1], b[3])),
      GSub(GMul(a[1], b[2]), GMul(a[2], b[1]))>>

\* the squared length of a stored vector, up to the square of the unit, with
\* the weight w on the square of the first coordinate (XWeight)
XNormSq(v, w) ==
    GAdd(GAdd(GMul(G(w), GMul(v[1], v[1])), GMul(v[2], v[2])), GMul(v[3], v[3]))

\* an exact face from a face of whole coordinates
GFace(f) ==
    [index    |-> f.index,
     center   |-> GVec(f.center),
     normal   |-> GVec(f.normal),
     vertices |-> [j \in 1..Len(f.vertices) |-> GVec(f.vertices[j])]]

-----------------------------------------------------------------------------
(* The octahedron (src/polyhedra/octahedron.ts), in units of a third of    *)
(* OCTAHEDRON_RADIUS: the inradius 1/sqrt(6) is the radius 1/sqrt(2) over  *)
(* sqrt(3), so the centre of the face of normal (sx, sy, sz)/sqrt(3) is    *)
(* (sx, sy, sz) and the vertices are at distance 3 on the axes.  A normal  *)
(* is held as a vector of its direction.                                   *)

OCTAHEDRON_RADIUS == 3

OCT_FACE_CENTERS ==
    << <<1, 1, 1>>, <<-1, 1, 1>>, <<1, -1, 1>>, <<1, 1, -1>>,
       <<-1, -1, 1>>, <<-1, 1, -1>>, <<1, -1, -1>>, <<-1, -1, -1>> >>

\* one entry of the map over OCT_FACE_CENTERS in getFaces
OctFace(i) ==
    LET normal == OCT_FACE_CENTERS[i]
        v1 == <<SignOf(normal[1]) * OCTAHEDRON_RADIUS, 0, 0>>
        v2 == <<0, SignOf(normal[2]) * OCTAHEDRON_RADIUS, 0>>
        v3 == <<0, 0, SignOf(normal[3]) * OCTAHEDRON_RADIUS>>
        cp == Cross(Sub(v2, v1), Sub(v3, v1))
    IN  [index    |-> i,
         center   |-> normal,
         normal   |-> normal,
         vertices |-> IF Dot(cp, normal) < 0 THEN <<v1, v3, v2>> ELSE <<v1, v2, v3>>]

octahedron_getFaces == [i \in 1..Len(OCT_FACE_CENTERS) |-> GFace(OctFace(i))]

-----------------------------------------------------------------------------
(* The tetrahedron (src/unnamed/part_003), in units of a third of          *)
(* a = 1/(2*sqrt(2)): the inradius is a/sqrt(3), so the centre of the face *)
(* of normal (sx, sy, sz)/sqrt(3) is (sx, sy, sz).                         *)

TET_VERTICES ==
    << <<3, 3, 3>>, <<-3, -3, 3>>, <<-3, 3, -3>>, <<3, -3, -3>> >>

TET_FACE_CENTERS ==
    << <<-1, -1, -1>>, <<1, 1, -1>>, <<1, -1, 1>>, <<-1, 1, 1>> >>

\* the vertex indices (from 0) of the faces listed in getFaces
TET_FACE_VERTICES == << <<1, 2, 3>>, <<0, 3, 2>>, <<0, 1, 3>>, <<0, 2, 1>> >>

\* one entry of faces.map in getFaces
TetFace(i) ==
    LET n  == TET_FACE_CENTERS[i]
        v1 == TET_VERTICES[TET_FACE_VERTICES[i][1] + 1]
        v2 == TET_VERTICES[TET_FACE_VERTICES[i][2] + 1]
        v3 == TET_VERTICES[TET_FACE_VERTICES[i][3] + 1]
        cp == Cross(Sub(v2, v1), Sub(v3, v1))
    IN  [index    |-> i,
         center   |-> n,
         normal   |-> n,
         vertices |-> IF Dot(cp, n) > 0 THEN <<v1, v2, v3>> ELSE <<v1, v3, v2>>]

tetrahedron_getFaces == [i \in 1..Len(TET_FACE_VERTICES) |-> GFace(TetFace(i))]

-----------------------------------------------------------------------------
(* The icosahedron (src/App.tsx 701-876), in units of a third of icoScale: *)
(* a vertex is three times its raw triple and the centre of a face, the    *)
(* sum of its vertices over 3, is the sum of the raw triples.              *)

ICO_VERTICES_RAW ==
    << <<G(-1), phi, G(0)>>, <<G(1), phi, G(0)>>,
       <<G(-1), GNeg(phi), G(0)>>, <<G(1), GNeg(phi), G(0)>>,
       <<G(0), G(-1), phi>>, <<G(0), G(1), phi>>,
       <<G(0), G(-1), GNeg(phi)>>, <<G(0), G(1), GNeg(phi)>>,
       <<phi, G(0), G(-1)>>, <<phi, G(0), G(1)>>,
       <<GNeg(phi), G(0), G(-1)>>, <<GNeg(phi), G(0), G(1)>> >>

ICO_INDICES ==
    << 0, 11, 5,  0, 5, 1,  0, 1, 7,  0, 7, 10,  0, 10, 11,
       1, 5, 9,   5, 11, 4, 11, 10, 2, 10, 7, 6,  7, 1, 8,
       3, 9, 4,   3, 4, 2,  3, 2, 6,  3, 6, 8,   3, 8, 9,
       4, 9, 5,   2, 4, 11, 6, 2, 10, 8, 6, 7,   9, 8, 1 >>

\* the raw vertex at place k (from 0) of ICO_INDICES
IcoRaw(k) == ICO_VERTICES_RAW[ICO_INDICES[k + 1] + 1]

\* (a variant of IcoFace that numbers the faces by the place i itself)
IcoFaceByPlace(i) ==
    [index    |-> i + 1,
     center   |-> XAdd(XAdd(IcoRaw(i), IcoRaw(i + 1)), IcoRaw(i + 2)),
     normal   |-> XAdd(XAdd(IcoRaw(i), IcoRaw(i + 1)), IcoRaw(i + 2)),
     vertices |-> <<XScale(IcoRaw(i), G(3)), XScale(IcoRaw(i + 1), G(3)),
                    XScale(IcoRaw(i + 2), G(3))>>]

\* the face pushed by the turn i (from 0, in steps of 3) of the loop of getFaces
IcoFace(i) ==
    [index    |-> (i \div 3) + 1,
     center   |-> XAdd(XAdd(IcoRaw(i), IcoRaw(i + 1)), IcoRaw(i + 2)),
     normal   |-> XAdd(XAdd(IcoRaw(i), IcoRaw(i + 1)), IcoRaw(i + 2)),
     vertices |-> <<XScale(IcoRaw(i), G(3)), XScale(IcoRaw(i + 1), G(3)),
                    XScale(IcoRaw(i + 2), G(3))>>]

icosahedron_getFaces == [f \in 1..(Len(ICO_INDICES) \div 3) |-> IcoFace(3 * (f - 1))]

-----------------------------------------------------------------------------
(* The dodecahedron (src/polyhedra/dodecahedron.ts).  Vertices are named   *)
(* by their index from 0 in DOD_VERTICES_RAW, as in the code.  Raw triples *)
(* are exact; a length of the solid is dodScale = phi/2 times the raw one. *)

DOD_VERTICES_RAW ==
    << <<G(1), G(1), G(1)>>, <<G(1), G(1), G(-1)>>,
       <<G(1), G(-1), G(1)>>, <<G(1), G(-1), G(-1)>>,
       <<G(-1), G(1), G(1)>>, <<G(-1), G(1), G(-1)>>,
       <<G(-1), G(-1), G(1)>>, <<G(-1), G(-1), G(-1)>>,
       <<G(0), phi, invPhi>>, <<G(0), phi, GNeg(invPhi)>>,
       <<G(0), GNeg(phi), invPhi>>, <<G(0), GNeg(phi), GNeg(invPhi)>>,
       <<invPhi, G(0), phi>>, <<GNeg(invPhi), G(0), phi>>,
       <<invPhi, G(0), GNeg(phi)>>, <<GNeg(invPhi), G(0), GNeg(phi)>>,
       <<phi, invPhi, G(0)>>, <<phi, GNeg(invPhi), G(0)>>,
       <<GNeg(phi), invPhi, G(0)>>, <<GNeg(phi), GNeg(invPhi), G(0)>> >>

\* the vertex indices, 0..19
DodVertexIds == 0..(Len(DOD_VERTICES_RAW) - 1)

DodRaw(i) == DOD_VERTICES_RAW[i + 1]

\* dodScale squared is DodScaleSqNum / DodScaleSqDen = phi*phi/4
DodScaleSqNum == GMul(phi, phi)

DodScaleSqDen == 4

\* eps of computeFaces is 1/EpsInverse
EpsInverse == 100

\* Math.abs(d - expectedEdge) < eps for the distance d of the vertices i, j:
\* (1 - eps)^2 < d*d < (1 + eps)^2
IsEdge(i, j) ==
    LET dd == GMul(G(EpsInverse * EpsInverse),
                   GMul(XNormSq(XSub(DodRaw(i), DodRaw(j)), 1), DodScaleSqNum))
    IN  /\ GLess(G((EpsInverse - 1) * (EpsInverse - 1) * DodScaleSqDen), dd)
        /\ GLess(dd, G((EpsInverse + 1) * (EpsInverse + 1) * DodScaleSqDen))

\* the elements of a set of numbers in rising order
RECURSIVE Ascending(_)
Ascending(S) ==
    IF S = {} THEN <<>>
    ELSE LET m == CHOOSE x \in S : \A y \in S : x <= y
         IN  <<m>> \o Ascending(S \ {m})

\* adj (lines 48-57): a Set lists its elements in the order they were added,
\* which for adj[i] is the rising order: those below i are added while the
\* outer loop is below i, those above while it is at i
DodAdj == [i \in DodVertexIds |-> Ascending({j \in DodVertexIds : j # i /\ IsEdge(i, j)})]

\* the closed walks start, v1, v2, v3, v4 that reach line 72, in the order
\* of the five loops (lines 63-71)
CyclesFrom4(adj, start, v1, v2, v3) ==
    Flatten([d \in 1..Len(adj[v3]) |->
        LET v4 == adj[v3][d]
        IN  IF v4 = start \/ v4 = v1 \/ v4 = v2 \/ start \notin Range(adj[v4])
            THEN <<>> ELSE << <<start, v1, v2, v3, v4>> >>])

CyclesFrom3(adj, start, v1, v2) ==
    Flatten([c \in 1..Len(adj[v2]) |->
        IF adj[v2][c] = start \/ adj[v2][c] = v1 THEN <<>>
        ELSE CyclesFrom4(adj, start, v1, v2, adj[v2][c])])

CyclesFrom2(adj, start, v1) ==
    Flatten([b \in 1..Len(adj[v1]) |->
        IF adj[v1][b] = start THEN <<>>
        ELSE CyclesFrom3(adj, start, v1, adj[v1][b])])

CyclesFrom1(adj, start) ==
    Flatten([a \in 1..Len(adj[start]) |-> CyclesFrom2(adj, start, adj[start][a])])

Cycles(adj) == Flatten([s \in 1..Len(DOD_VERTICES_RAW) |-> CyclesFrom1(adj, s - 1)])

\* lines 78-81, up to a positive factor: the normal of the plane of the
\* first three vertices of the face
FaceCross(face) ==
    XCross(XSub(DodRaw(face[2]), DodRaw(face[1])), XSub(DodRaw(face[3]), DodRaw(face[1])))

\* lines 75-77, up to a positive factor
FaceSum(face) ==
    XAdd(XAdd(XAdd(XAdd(DodRaw(face[1]), DodRaw(face[2])), DodRaw(face[3])),
              DodRaw(face[4])), DodRaw(face[5]))

\* lines 82-86: no vertex is farther than eps from the plane through start
\* of normal n = c/|c|; the distance is dodScale * |w.c| / |c| for the raw
\* w = vertex - start and c = FaceCross
Coplanar(face) ==
    LET c == FaceCross(face)
        far(vi) ==
            LET wc == XDot(XSub(DodRaw(vi), DodRaw(face[1])), c)
            IN  GLess(GMul(G(DodScaleSqDen), XNormSq(c, 1)),
                      GMul(G(EpsInverse * EpsInverse), GMul(DodScaleSqNum, GMul(wc, wc))))
    IN  \A k \in 1..Len(face) : ~far(face[k])

\* lines 96-103: the face turned to wind counter-clockwise seen from outside
Wind(face) ==
    LET once == IF GSign(XDot(FaceCross(face), FaceSum(face))) < 0
                THEN Reverse(face) ELSE face
    IN  IF GSign(XDot(FaceCross(once), FaceSum(once))) < 0 THEN Reverse(once) ELSE once

\* (a variant of Examine that does not look the key up in faceSet)
ExamineUnkeyed(found, face) ==
    IF ~Coplanar(face) THEN found
    ELSE [faces   |-> Append(found.faces, Wind(face)),
          faceSet |-> found.faceSet \cup {Range(face)}]

\* the body of the innermost loop (lines 72-105) for one closed walk: the
\* faces found and the keys seen after it
Examine(found, face) ==
    IF ~Coplanar(face) \/ Range(face) \in found.faceSet THEN found
    ELSE [faces   |-> Append(found.faces, Wind(face)),
          faceSet |-> found.faceSet \cup {Range(face)}]

NoFaces == [faces |-> <<>>, faceSet |-> {}]

\* the loops over the closed walks lo..hi of cycles, in order
RECURSIVE ExamineAll(_, _, _, _)
ExamineAll(found, cycles, lo, hi) ==
    CASE lo > hi -> found
      [] lo = hi -> Examine(found, cycles[lo])
      [] OTHER   -> ExamineAll(ExamineAll(found, cycles, lo, (lo + hi) \div 2),
                               cycles, ((lo + hi) \div 2) + 1, hi)

computeFaces == ExamineAll(NoFaces, Cycles(DodAdj), 1, Len(Cycles(DodAdj))).faces

DOD_FACES == computeFaces

\* one entry of DOD_FACES.map in getFaces (lines 223-230), in units of a
\* fifth of dodScale
DodFace(faces, i) ==
    [index    |-> i,
     center   |-> FaceSum(faces[i]),
     normal   |-> FaceSum(faces[i]),
     vertices |-> [k \in 1..Len(faces[i]) |-> XScale(DodRaw(faces[i][k]), G(5))]]

dodecahedron_getFaces == [i \in 1..Len(DOD_FACES) |-> DodFace(DOD_FACES, i)]

-----------------------------------------------------------------------------
(* The registry (src/polyhedra/registry.ts): the faces, the face centres   *)
(* and the initial orientation of every registered shape, in exact         *)
(* coordinates.                                                            *)

POLYHEDRA ==
    {"octahedron", "cube", "icosahedron", "tetrahedron", "dodecahedron",
     "dcTriangle", "dcSquare", "dcHexagon"}

\* the faceCount of each definition; for the cube, whose definition file is
\* not at hand, the number of CUBE_FACE_CENTERS
faceCount(sh) ==
    CASE sh = "octahedron"   -> 8
      [] sh = "cube"         -> Len(CUBE_FACE_CENTERS)
      [] sh = "icosahedron"  -> 20
      [] sh = "tetrahedron"  -> 4
      [] sh = "dodecahedron" -> 12
      [] OTHER               -> 2

\* getPolyhedron(sh).getFaces()
definitionFaces(sh) ==
    CASE sh = "octahedron"   -> octahedron_getFaces
      [] sh = "tetrahedron"  -> tetrahedron_getFaces
      [] sh = "icosahedron"  -> icosahedron_getFaces
      [] sh = "dodecahedron" -> dodecahedron_getFaces
      [] OTHER               -> [i \in 1..Len(getFaces(sh)) |-> GFace(getFaces(sh)[i])]

\* getPolyhedron(sh).faceCenters, each up to a positive factor
faceCenters(sh) ==
    CASE sh = "octahedron"  -> [i \in 1..Len(OCT_FACE_CENTERS) |-> GVec(OCT_FACE_CENTERS[i])]
      [] sh = "tetrahedron" -> [i \in 1..Len(TET_FACE_CENTERS) |-> GVec(TET_FACE_CENTERS[i])]
      [] sh = "icosahedron" ->
            [i \in 1..Len(icosahedron_getFaces) |-> icosahedron_getFaces[i].center]
      [] sh = "dodecahedron" -> [i \in 1..Len(DOD_FACES) |-> FaceSum(DOD_FACES[i])]
      [] sh = "cube"        -> [i \in 1..Len(CUBE_FACE_CENTERS) |-> GVec(CUBE_FACE_CENTERS[i])]
      [] OTHER              -> [i \in 1..Len(DC_FACE_CENTERS) |-> GVec(DC_FACE_CENTERS[i])]

\* The square of the unit of the stored coordinates of a shape is
\* UnitSqNum / UnitSqDen: 1/EDGE_LENGTH for the cube and the doubly covered
\* shapes (with a further sqrt(3) in dcTriangle), a third of the radius
\* 1/sqrt(2) for the octahedron, a third of a = 1/(2 sqrt(2)) for the
\* tetrahedron, a third of icoScale = 1/2 for the icosahedron and a fifth of
\* dodScale = phi/2 for the dodecahedron.
UnitSqNum(sh) == IF sh = "dodecahedron" THEN DodScaleSqNum ELSE G(1)

UnitSqDen(sh) ==
    CASE sh = "octahedron"   -> 18
      [] sh = "tetrahedron"  -> 72
      [] sh = "icosahedron"  -> 36
      [] sh = "dodecahedron" -> 25 * DodScaleSqDen
      [] sh = "dcTriangle"   -> 3 * EDGE_LENGTH * EDGE_LENGTH
      [] OTHER               -> EDGE_LENGTH * EDGE_LENGTH

\* a.distanceTo(b) < tol / EDGE_LENGTH for stored vectors a, b of the shape
\* and a whole tol dividing EDGE_LENGTH
WithinTolerance(sh, a, b, tol) ==
    LET inv == (EDGE_LENGTH \div tol) * (EDGE_LENGTH \div tol)
        dd  == GMul(XNormSq(XSub(a, b), XWeight(sh)), UnitSqNum(sh))
    IN  IF UnitSqDen(sh) % inv = 0
        THEN GLess(dd, G(UnitSqDen(sh) \div inv))
        ELSE GLess(GMul(G(inv), dd), G(UnitSqDen(sh)))

\* f.vertices.some(fv => fv.distanceTo(v) < 0.01) (turtle.ts 38-39)
HasVertexNearOn(sh, f, v) ==
    \E i \in 1..Len(f.vertices) : WithinTolerance(sh, f.vertices[i], v, ADJACENT_TOLERANCE)

\* the faces other than currentFace that have both ends of the edge
FacesAcross(sh, faces, currentFace, edgeV1, edgeV2) ==
    {i \in 1..Len(faces) :
        /\ faces[i].index # currentFace.index
        /\ HasVertexNearOn(sh, faces[i], edgeV1)
        /\ HasVertexNearOn(sh, faces[i], edgeV2)}

\* (a variant of getAdjacentFaceOn that does not pass over currentFace)
getAdjacentFaceAny(sh, faces, currentFace, edgeV1, edgeV2) ==
    LET found == {i \in 1..Len(faces) :
                    /\ HasVertexNearOn(sh, faces[i], edgeV1)
                    /\ HasVertexNearOn(sh, faces[i], edgeV2)}
    IN  IF found # {}
        THEN Some(faces[CHOOSE i \in found : \A j \in found : i <= j])
        ELSE Undefined

\* getAdjacentFace (turtle.ts 30-41) on the faces of any registered shape:
\* the first face other than currentFace that has both ends of the edge
getAdjacentFaceOn(sh, faces, currentFace, edgeV1, edgeV2) ==
    LET found == FacesAcross(sh, faces, currentFace, edgeV1, edgeV2)
    IN  IF found # {}
        THEN Some(faces[CHOOSE i \in found : \A j \in found : i <= j])
        ELSE Undefined

-----------------------------------------------------------------------------
(* Queries on the definition of a shape: getFaces, the neighbour lookup of *)
(* the turtle on the faces it returned, and the most-downward-normal query *)
(* of Simulation at the initial pose.                                      *)

MaxCalls == 2

InitFaces ==
    /\ solid \in POLYHEDRA
    /\ faceList = <<>>
    /\ calls = 0
    /\ lookup = Undefined
    /\ resting = Undefined
    /\ shape = "cube"
    /\ RunnerIdle
    /\ ParseIdle
    /\ RollIdle("cube")
    /\ MoveIdle
    /\ DodIdle
    /\ CrossIdle
    /\ StepIdle

\* getPolyhedron(solid).getFaces()
GetFaces ==
    /\ calls < MaxCalls
    /\ calls' = calls + 1
    /\ faceList' = definitionFaces(solid)
    /\ UNCHANGED <<solid, lookup, resting, parseVars, pathVars, rollVars, moveVars, dodVars, crossVars, stepVars>>

\* getAdjacentFace(faces, face, v1, v2) for a face of the list and the edge
\* from its vertex i to the next one around
LookupAcross(faces, face, i) ==
    LET v1 == face.vertices[i]
        v2 == face.vertices[(i % Len(face.vertices)) + 1]
        adjacent == getAdjacentFaceOn(solid, faces, face, v1, v2)
    IN  [from   |-> face.index,
         v1     |-> v1,
         v2     |-> v2,
         found  |-> IF adjacent = Undefined THEN Undefined ELSE Some(adjacent[1].index),
         origin |-> Undefined]

Lookup ==
    /\ faceList # <<>>
    /\ \E f \in 1..Len(faceList) : \E i \in 1..Len(faceList[f].vertices) :
          lookup' = Some(LookupAcross(faceList, faceList[f], i))
    /\ UNCHANGED <<solid, faceList, calls, resting, parseVars, pathVars, rollVars, moveVars, dodVars, crossVars, stepVars>>

\* the lookup from the face found, across the same edge taken the other way
LookupFrom(faces, l) ==
    LET adjacent == getAdjacentFaceOn(solid, faces, FindFace(faces, l.found[1])[1], l.v2, l.v1)
    IN  [from   |-> l.found[1],
         v1     |-> l.v2,
         v2     |-> l.v1,
         found  |-> IF adjacent = Undefined THEN Undefined ELSE Some(adjacent[1].index),
         origin |-> Some(l.from)]

LookupBack ==
    /\ lookup # Undefined
    /\ lookup[1].origin = Undefined
    /\ lookup[1].found # Undefined
    /\ lookup' = Some(LookupFrom(faceList, lookup[1]))
    /\ UNCHANGED <<solid, faceList, calls, resting, parseVars, pathVars, rollVars, moveVars, dodVars, crossVars, stepVars>>

\* the number of corners of the faces of a shape
FaceTypeVertexCount(sh) ==
    CASE sh \in {"tetrahedron", "octahedron", "icosahedron", "dcTriangle"} -> 3
      [] sh \in {"cube", "dcSquare"} -> 4
      [] sh = "dodecahedron"         -> 5
      [] sh = "dcHexagon"            -> 6

C11_State ==
    faceList # <<>> =>
        /\ Len(faceList) = faceCount(solid)
        /\ \A i \in 1..Len(faceList) :
              /\ faceList[i].index = i
              /\ Len(faceList[i].vertices) = FaceTypeVertexCount(solid)

C11_Step == (calls > 0 /\ calls' > calls) => faceList' = faceList

FaceOf(index) == FindFace(faceList, index)[1]

\* the boundary of face f holds the edge from a to b
HasEdge(f, a, b) ==
    \E j \in 1..Len(f.vertices) :
        /\ WithinTolerance(solid, f.vertices[j], a, ADJACENT_TOLERANCE)
        /\ WithinTolerance(solid, f.vertices[(j % Len(f.vertices)) + 1], b,
                           ADJACENT_TOLERANCE)

\* C12: for every shape, face A and boundary edge (v_i, v_i+1) of A, the
\* neighbour lookup finds exactly one other face B that holds both vertices,
\* the boundary of B has the edge reversed, and the lookup from B across it
\* returns A.
C12_NeighbourAcross ==
    lookup # Undefined =>
        IF lookup[1].origin = Undefined
        THEN /\ lookup[1].found # Undefined
             /\ lookup[1].found[1] # lookup[1].from
             /\ Cardinality(FacesAcross(solid, faceList, FaceOf(lookup[1].from),
                                        lookup[1].v1, lookup[1].v2)) = 1
             /\ HasEdge(FaceOf(lookup[1].found[1]), lookup[1].v2, lookup[1].v1)
        ELSE lookup[1].found = lookup[1].origin

\* a lookup on the icosahedron, answered from the other side of the edge
C12_Witness ==
    /\ solid = "icosahedron"
    /\ lookup # Undefined
    /\ lookup[1].origin # Undefined
    /\ lookup[1].found = lookup[1].origin
    /\ lookup[1].from # lookup[1].origin[1]

-----------------------------------------------------------------------------
(* The initial orientation of each definition and calculateFaceIndex       *)
(* (src/polyhedra/index.ts 185-197) on it.  A quaternion is held as the    *)
(* rotation it stands for, by the three rows of its matrix, each row up to *)
(* a positive factor: a vector the code normalizes is held unnormalized.   *)

\* Matrix4.makeBasis(x, y, z): the matrix with these columns, by its rows
makeBasis(x, y, z) ==
    <<<<x[1], y[1], z[1]>>, <<x[2], y[2], z[2]>>, <<x[3], y[3], z[3]>>>>

\* the product of a matrix of whole entries, one of them 1 or -1 in each
\* row, and the matrix of the given rows: its rows.  (The basis matrices the
\* code multiplies from the left are of this kind, so each row of the
\* product is a row of the right factor or its opposite.)
TimesRows(m, rows) ==
    [i \in 1..3 |->
        XAdd(XAdd(XScale(rows[1], G(m[i][1])), XScale(rows[2], G(m[i][2]))),
             XScale(rows[3], G(m[i][3])))]

\* (a variant of mWorld whose second column points up)
mWorldUp == makeBasis(<<1, 0, 0>>, <<0, 1, 0>>, <<0, 0, 1>>)

\* mWorld of octahedron.ts 20-23 and part_003 53-56
mWorld == makeBasis(<<1, 0, 0>>, <<0, -1, 0>>, <<0, 0, 1>>)

\* mTarget of App.tsx 757-760 and dodecahedron.ts 182-185
mTarget ==
    makeBasis(Cross(<<0, -1, 0>>, <<0, 0, -1>>), <<0, -1, 0>>, <<0, 0, -1>>)

\* makeBasis(right, down, forward).transpose() has the rows right, down,
\* forward; forward is the cross product of down and right
InverseRows(down, right) == <<right, down, XCross(down, right)>>

\* mSource.transpose() for the first face of the list: down is the centre
\* of the face, back runs from the centre to its first vertex, right is the
\* cross product of down and back
SourceRows(face) ==
    <<XCross(face.center, XSub(face.vertices[1], face.center)),
      face.center,
      XSub(face.vertices[1], face.center)>>

\* definition.initialQuaternion
initialRotation(sh) ==
    CASE sh = "octahedron"  ->
            TimesRows(mWorld, InverseRows(GVec(<<1, 1, 1>>), GVec(<<1, -1, 0>>)))
      [] sh = "tetrahedron" ->
            TimesRows(mWorld, InverseRows(GVec(TET_FACE_CENTERS[1]), GVec(<<1, 0, -1>>)))
      [] sh = "icosahedron" -> TimesRows(mTarget, SourceRows(icosahedron_getFaces[1]))
      [] sh = "dodecahedron" -> TimesRows(mTarget, SourceRows(dodecahedron_getFaces[1]))
      [] OTHER ->
            [i \in 1..3 |-> GVec(<<initialQuaternion(sh)[1][i], initialQuaternion(sh)[2][i],
                                   initialQuaternion(sh)[3][i]>>)]

\* The dot product of the unit vectors along a and b, as the pair of
\* a.b and |a|^2 |b|^2
UnitDot(a, b, w) ==
    [num |-> GAdd(GAdd(GMul(G(w), GMul(a[1], b[1])), GMul(a[2], b[2])), GMul(a[3], b[3])),
     sq  |-> GMul(XNormSq(a, w), XNormSq(b, w))]

\* x < y for two such pairs
UnitDotLess(x, y) ==
    CASE GSign(x.num) < 0 /\ GSign(y.num) >= 0 -> TRUE
      [] GSign(x.num) >= 0 /\ GSign(y.num) < 0 -> FALSE
      [] GSign(x.num) >= 0 ->
            GLess(GMul(GMul(x.num, x.num), y.sq), GMul(GMul(y.num, y.num), x.sq))
      [] OTHER ->
            GLess(GMul(GMul(y.num, y.num), x.sq), GMul(GMul(x.num, x.num), y.sq))

\* bestDot = -1
MinusOne == [num |-> G(-1), sq |-> G(1)]

\* worldNormal.dot(new Vector3(0, -1, 0)) for each face centre: the second
\* coordinate of the turned unit normal, negated
DownDots(rows, centers, w) ==
    [i \in 1..Len(centers) |-> UnitDot(XScale(rows[2], G(-1)), centers[i], w)]

\* the loop of calculateFaceIndex over these: the first that exceeds -1 and
\* all before it and is not exceeded after it; 0 + 1 when there is none
FirstGreatest(dots) ==
    IF \E i \in 1..Len(dots) : UnitDotLess(MinusOne, dots[i])
    THEN CHOOSE i \in 1..Len(dots) :
            /\ UnitDotLess(MinusOne, dots[i])
            /\ \A j \in 1..Len(dots) : ~UnitDotLess(dots[i], dots[j])
            /\ \A j \in 1..(i - 1) : UnitDotLess(dots[j], dots[i])
    ELSE 1

\* calculateFaceIndex(definition.initialQuaternion)
calculateInitialFaceIndex(sh) ==
    FirstGreatest(DownDots(initialRotation(sh), faceCenters(sh), XWeight(sh)))

\* the most-downward-normal query at the initial pose of the shape
RestingQuery ==
    /\ resting' = Some(calculateInitialFaceIndex(solid))
    /\ UNCHANGED <<solid, faceList, calls, lookup, parseVars, pathVars, rollVars, moveVars, dodVars, crossVars, stepVars>>

NextFaces == GetFaces \/ Lookup \/ LookupBack \/ RestingQuery

SpecFaces == InitFaces /\ [][NextFaces]_vars

\* C18: for every shape the most-downward-normal query at the initial pose
\* gives face 1, the face index the initial history step records.
C18_InitialFace ==
    resting # Undefined =>
        /\ resting[1] = 1
        /\ resting[1] = initialFaceIndex(solid)

\* the query has been made on the dodecahedron
C18_Witness == solid = "dodecahedron" /\ resting = Some(1)

-----------------------------------------------------------------------------
(* The module initialisation of dodecahedron.ts, step by step: the loops   *)
(* of computeFaces over the closed walks (one walk a step), and the        *)
(* backtracking search of computeFaceColorIndices on the faces found (one  *)
(* turn of a loop over the colours a step).                                *)

\* the closed walks the loops of computeFaces reach, in their order
DodCycles == Cycles(DodAdj)

\* the number of faces computeFaceColorIndices colours (lines 135-148)
COLORED_FACES == 12

\* the number of colours it tries (line 149)
COLOR_COUNT == 4

\* one turn of the innermost loop of computeFaces
ExamineNext ==
    /\ table = <<>>
    /\ walk < Len(DodCycles)
    /\ faceSearch' = Examine(faceSearch, DodCycles[walk + 1])
    /\ walk' = walk + 1
    /\ UNCHANGED <<table, colors, frames, solved, colorIndices, faceVars,
                   parseVars, pathVars, rollVars, moveVars, crossVars, stepVars>>

\* line 115: computeFaces returns and DOD_FACES is set
ReturnFaces ==
    /\ table = <<>>
    /\ walk = Len(DodCycles)
    /\ table' = faceSearch.faces
    /\ UNCHANGED <<walk, faceSearch, colors, frames, solved, colorIndices, faceVars,
                   parseVars, pathVars, rollVars, moveVars, crossVars, stepVars>>

\* DOD_FACES[i].filter(v => DOD_FACES[j].includes(v)).length >= 2 for the
\* faces numbered i and j from 0
SharesEdge(faces, i, j) ==
    Len(SelectSeq(faces[i + 1], LAMBDA v : v \in Range(faces[j + 1]))) >= 2

\* faceAdj (lines 135-144)
FaceAdj(faces) ==
    [i \in 0..(COLORED_FACES - 1) |->
        {j \in 0..(COLORED_FACES - 1) : j # i /\ SharesEdge(faces, i, j)}]

\* (a variant of ColorFree that accepts every colour)
ColorAlwaysFree(faces, cols, f, c) == TRUE

\* ok of lines 150-153: no neighbour of face f has the colour c
ColorFree(faces, cols, f, c) == \A nb \in FaceAdj(faces)[f] : cols[nb + 1] # c

\* lines 146 and 162: colors is filled with -1 and solve(0) is called
CallSolve ==
    /\ table # <<>>
    /\ colors = <<>>
    /\ colors' = [i \in 1..COLORED_FACES |-> -1]
    /\ frames' = <<0>>
    /\ UNCHANGED <<walk, faceSearch, table, solved, colorIndices, faceVars,
                   parseVars, pathVars, rollVars, moveVars, crossVars, stepVars>>

\* One turn of the loop over c in the innermost call solve(f) (lines
\* 149-157), frames holding the c of every call under way: the colour is
\* skipped, or set and solve(f + 1) called, which for f + 1 = 12 returns
\* true at once and with it every call under way.
TryColor ==
    /\ frames # <<>>
    /\ frames[Len(frames)] < COLOR_COUNT
    /\ LET f == Len(frames) - 1
           c == frames[Len(frames)]
       IN  IF ColorFree(table, colors, f, c)
           THEN /\ colors' = [colors EXCEPT ![f + 1] = c]
                /\ frames' = IF f + 1 = COLORED_FACES THEN <<>> ELSE Append(frames, 0)
                /\ solved' = IF f + 1 = COLORED_FACES THEN Some(TRUE) ELSE solved
           ELSE /\ frames' = [frames EXCEPT ![Len(frames)] = c + 1]
                /\ UNCHANGED <<colors, solved>>
    /\ UNCHANGED <<walk, faceSearch, table, colorIndices, faceVars,
                   parseVars, pathVars, rollVars, moveVars, crossVars, stepVars>>

\* lines 159-160: the colours are used up, colors[f] is reset and solve(f)
\* returns false; the call above goes on to its next colour
GiveUp ==
    /\ frames # <<>>
    /\ frames[Len(frames)] = COLOR_COUNT
    /\ colors' = [colors EXCEPT ![Len(frames)] = -1]
    /\ frames' = IF Len(frames) = 1 THEN <<>>
                 ELSE [SubSeq(frames, 1, Len(frames) - 1)
                          EXCEPT ![Len(frames) - 1] = frames[Len(frames) - 1] + 1]
    /\ solved' = IF Len(frames) = 1 THEN Some(FALSE) ELSE solved
    /\ UNCHANGED <<walk, faceSearch, table, colorIndices, faceVars,
                   parseVars, pathVars, rollVars, moveVars, crossVars, stepVars>>

\* lines 162-166: solve(0) has returned, its value is dropped; colors is
\* returned and becomes DOD_FACE_COLOR_INDICES
ReturnColors ==
    /\ solved # Undefined
    /\ colorIndices = Undefined
    /\ colorIndices' = Some(colors)
    /\ UNCHANGED <<walk, faceSearch, table, colors, frames, solved, faceVars,
                   parseVars, pathVars, rollVars, moveVars, crossVars, stepVars>>

InitDod ==
    /\ walk = 0
    /\ faceSearch = NoFaces
    /\ table = <<>>
    /\ colors = <<>>
    /\ frames = <<>>
    /\ solved = Undefined
    /\ colorIndices = Undefined
    /\ shape = "cube"
    /\ RunnerIdle
    /\ ParseIdle
    /\ RollIdle("cube")
    /\ MoveIdle
    /\ FaceIdle
    /\ CrossIdle
    /\ StepIdle

NextDod == ExamineNext \/ ReturnFaces \/ CallSolve \/ TryColor \/ GiveUp \/ ReturnColors

SpecDod == InitDod /\ [][NextDod]_vars

\* the faces of the table that hold all the vertices of S
FacesHolding(S) == {i \in 1..Len(table) : S \subseteq Range(table[i])}

\* C13: the face discovery of the dodecahedron yields exactly 12 faces, each
\* of 5 distinct vertices, no two on the same set of vertices, every vertex
\* in exactly 3 faces and every adjacency edge in exactly 2 faces.
C13_TwelvePentagons ==
    table # <<>> =>
        /\ Len(table) = 12
        /\ \A i \in 1..Len(table) :
              Len(table[i]) = 5 /\ Cardinality(Range(table[i])) = 5
        /\ \A i, j \in 1..Len(table) : i # j => Range(table[i]) # Range(table[j])
        /\ \A v \in DodVertexIds : Cardinality(FacesHolding({v})) = 3
        /\ \A a, b \in DodVertexIds :
              (a # b /\ IsEdge(a, b)) => Cardinality(FacesHolding({a, b})) = 2

\* computeFaces has examined every closed walk and returned
C13_Witness == table # <<>> /\ walk = Len(DodCycles) /\ walk >= 100

\* C14: the backtracking colouring gives each of the 12 faces a colour in
\* 0..3, and no two faces that share two or more vertices the same colour.
C14_ProperColoring ==
    colorIndices # Undefined =>
        /\ Len(colorIndices[1]) = 12
        /\ \A i \in 1..12 : colorIndices[1][i] \in 0..3
        /\ \A i, j \in 1..12 :
              (i # j /\ Cardinality(Range(table[i]) \cap Range(table[j])) >= 2)
                  => colorIndices[1][i] # colorIndices[1][j]

\* the colouring of the faces found has been returned, all four colours in it
C14_Witness ==
    /\ Len(table) = 12
    /\ colorIndices # Undefined
    /\ solved = Some(TRUE)
    /\ \E i \in 1..12 : colorIndices[1][i] = 3

-----------------------------------------------------------------------------
(* computeFaceColorIndices as a function of the face table it reads: the   *)
(* table computeFaces yields, and a table of twelve faces of which five run *)
(* through one edge, so that no four colours do.                           *)

PINCHED_FACES ==
    [i \in 1..COLORED_FACES |->
        IF i <= 5 THEN <<0, 1, 3 * i - 1, 3 * i, 3 * i + 1>>
        ELSE <<5 * i, 5 * i + 1, 5 * i + 2, 5 * i + 3, 5 * i + 4>>]

InitColor ==
    /\ table \in {DOD_FACES, PINCHED_FACES}
    /\ walk = 0
    /\ faceSearch = NoFaces
    /\ colors = <<>>
    /\ frames = <<>>
    /\ solved = Undefined
    /\ colorIndices = Undefined
    /\ shape = "cube"
    /\ RunnerIdle
    /\ ParseIdle
    /\ RollIdle("cube")
    /\ MoveIdle
    /\ FaceIdle
    /\ CrossIdle
    /\ StepIdle

NextColor == CallSolve \/ TryColor \/ GiveUp \/ ReturnColors

SpecColor == InitColor /\ [][NextColor]_vars

-----------------------------------------------------------------------------
(* The targets of a settled pose and the resting face after a roll, on the *)
(* shapes of RollShapes.                                                   *)

\* the face of the settled pose that lies on the floor
GroundFace(worldFaces) == worldFaces[BottomFaceIndex(worldFaces)]

\* the targets tg are one for each edge of the face b, in the order of its
\* edges, each with the midpoint of its edge as point
OnePerEdge(tg, b, edges) ==
    /\ Len(b.vertices) = edges
    /\ \A i \in 1..Len(b.vertices) : b.vertices[i][2] = 0
    /\ Len(tg) = edges
    /\ \A i \in 1..Len(tg) :
          Scale(tg[i].point, 2)
              = Add(b.vertices[i], b.vertices[(i % Len(b.vertices)) + 1])

\* C16: whenever the pose is settled (the initial pose or after any
\* completed rolls) updateTargets yields exactly one target for each edge of
\* the face on the floor, as many as that face has edges, each with the
\* midpoint of its edge as pivot.
C16_TargetPerEdge ==
    ~sim.isRolling =>
        OnePerEdge(targets,
                   GroundFace(WorldFaces(currentStep.position, currentStep.quaternion, shape)),
                   FaceTypeVertexCount(shape))

\* the cube has settled after two rolls on a face other than its first
C16_Witness ==
    /\ shape = "cube"
    /\ ~sim.isRolling
    /\ currentStepIndex = 2
    /\ currentStep.faceIndex # 1
    /\ Len(targets) = 4

\* the faces other than b that hold both ends of the edge of b with the
\* midpoint pivot
AcrossPivot(worldFaces, b, pivot) ==
    {f.index : f \in
        {g \in Range(worldFaces) :
            /\ g.index # b.index
            /\ \E i \in 1..Len(b.vertices) :
                  /\ Scale(pivot, 2)
                        = Add(b.vertices[i], b.vertices[(i % Len(b.vertices)) + 1])
                  /\ b.vertices[i] \in Range(g.vertices)
                  /\ b.vertices[(i % Len(b.vertices)) + 1] \in Range(g.vertices)}}

RollLands(worldFaces, b, pivot, finalFace, count) ==
    /\ AcrossPivot(worldFaces, b, pivot) = {finalFace}
    /\ finalFace \in 1..count
    /\ finalFace # b.index

C17_Step ==
    (sim.isRolling /\ ~sim'.isRolling /\ sim.pendingMove # Undefined) =>
        RollLands(WorldFaces(sim.rollStartPos, sim.rollStartQuat, shape),
                  GroundFace(WorldFaces(sim.rollStartPos, sim.rollStartQuat, shape)),
                  sim.rollPivot,
                  history'[Len(history')].faceIndex,
                  faceCount(shape))

\* C17: when a roll over an edge of the resting face completes, the face
\* index computed from the new orientation is the index of the one face
\* that shares that edge with the resting face before the roll; it is in
\* 1..faceCount and is not the index of the face before the roll.
C17_LandsAcrossPivot == [][C17_Step]_vars

\* two rolls of the cube have completed, each onto another face
C17_Witness ==
    /\ shape = "cube"
    /\ Len(history) = 3
    /\ ~sim.isRolling
    /\ history[2].faceIndex # history[1].faceIndex
    /\ history[3].faceIndex # history[2].faceIndex
    /\ history[3].faceIndex # history[1].faceIndex

-----------------------------------------------------------------------------
(* extractEdgeCrossings (src/utils/turtle.ts 240-304) on the segments      *)
(* generatePath returns.                                                   *)

\* findClosestFace (lines 275-288): the first face at the least distance
\* from its centre to the point, none when there are no faces
findClosestFace(point, faces) ==
    IF faces = <<>> THEN Undefined
    ELSE Some(faces[CHOOSE i \in 1..Len(faces) :
                 /\ \A j \in 1..Len(faces) :
                       DistSq(point, faces[i].center) <= DistSq(point, faces[j].center)
                 /\ \A j \in 1..(i - 1) :
                       DistSq(point, faces[j].center) > DistSq(point, faces[i].center)])

\* the edge of face1 from its vertex i to the next one around
EdgeFrom(face1, i) ==
    [v1 |-> face1.vertices[i], v2 |-> face1.vertices[(i % Len(face1.vertices)) + 1]]

\* (a variant of findSharedEdge that returns the first edge of face1)
findFirstEdge(face1, face2) == Some(EdgeFrom(face1, 1))

\* findSharedEdge (lines 290-304): the first edge of face1 of which face2
\* has both ends
findSharedEdge(face1, face2) ==
    LET shared == {i \in 1..Len(face1.vertices) :
                      /\ HasVertexNear(face2, EdgeFrom(face1, i).v1)
                      /\ HasVertexNear(face2, EdgeFrom(face1, i).v2)}
    IN  IF shared = {} THEN Undefined
        ELSE Some(EdgeFrom(face1, CHOOSE i \in shared : \A j \in shared : i <= j))

\* lines 257-265
EdgeCrossing(face1, face2, sharedEdge, p2, segmentIndex, i) ==
    [fromFaceIndex       |-> face1.index,
     toFaceIndex         |-> face2.index,
     edgeVertex1         |-> sharedEdge.v1,
     edgeVertex2         |-> sharedEdge.v2,
     crossingPoint       |-> p2,
     segmentIndex        |-> segmentIndex,
     pointIndexInSegment |-> i + 1]

\* lines 254-267, for the faces found for the two points
FaceTransition(face1, face2, p2, segmentIndex, i) ==
    IF face1 # Undefined /\ face2 # Undefined /\ face1[1].index # face2[1].index
    THEN IF findSharedEdge(face1[1], face2[1]) # Undefined
         THEN <<EdgeCrossing(face1[1], face2[1], findSharedEdge(face1[1], face2[1])[1],
                             p2, segmentIndex, i)>>
         ELSE <<>>
    ELSE <<>>

\* one turn of the loop over i (lines 246-268), i counted from 0
PointPair(faces, points, segmentIndex, i) ==
    FaceTransition(findClosestFace(points[i + 1], faces),
                   findClosestFace(points[i + 2], faces),
                   points[i + 2], segmentIndex, i)

\* one turn of segments.forEach (lines 245-269), segmentIndex counted from 0
SegmentCrossings(faces, points, segmentIndex) ==
    Flatten([k \in 1..(Len(points) - 1) |-> PointPair(faces, points, segmentIndex, k - 1)])

extractEdgeCrossings(sh, segments) ==
    Flatten([s \in 1..Len(segments) |->
                SegmentCrossings(getFaces(sh), segments[s].points, s - 1)])

\* extractEdgeCrossings(shape, result.segments)
ExtractEdgeCrossings ==
    /\ pc = "returned"
    /\ crossings = Undefined
    /\ crossings' = Some(extractEdgeCrossings(shape, result.segments))
    /\ UNCHANGED <<parseVars, pathVars, rollVars, moveVars, faceVars, dodVars, stepVars>>

NextCross == Interpret \/ Return \/ ExtractEdgeCrossings

SpecCross == InitPath /\ [][NextCross]_vars

\* the point p lies at the height the path is drawn at over the plane of
\* the face f
DrawnOn(p, f) ==
    Dot(Sub(p, f.center), f.normal) = NORMAL_OFFSET * Dot(f.normal, f.normal)

\* a and b are the ends of one edge of the face f, in either order
IsEdgeOf(f, a, b) ==
    \E i \in 1..Len(f.vertices) :
        {a, b} = {EdgeFrom(f, i).v1, EdgeFrom(f, i).v2} /\ a # b

\* the event e is for points number e.pointIndexInSegment - 1 and
\* e.pointIndexInSegment (from 0) of the segment it names, the first drawn
\* on its from face, the second on its to face
EventOfPair(e, segments, faces) ==
    /\ e.segmentIndex \in 0..(Len(segments) - 1)
    /\ e.pointIndexInSegment \in 1..(Len(segments[e.segmentIndex + 1].points) - 1)
    /\ e.crossingPoint = segments[e.segmentIndex + 1].points[e.pointIndexInSegment + 1]
    /\ e.fromFaceIndex # e.toFaceIndex
    /\ FindFace(faces, e.fromFaceIndex) # Undefined
    /\ FindFace(faces, e.toFaceIndex) # Undefined
    /\ DrawnOn(segments[e.segmentIndex + 1].points[e.pointIndexInSegment],
               FindFace(faces, e.fromFaceIndex)[1])
    /\ DrawnOn(e.crossingPoint, FindFace(faces, e.toFaceIndex)[1])
    /\ IsEdgeOf(FindFace(faces, e.fromFaceIndex)[1], e.edgeVertex1, e.edgeVertex2)
    /\ IsEdgeOf(FindFace(faces, e.toFaceIndex)[1], e.edgeVertex1, e.edgeVertex2)

\* the events are in the order of the path
InPathOrder(events) ==
    \A k, l \in 1..Len(events) :
        k < l =>
            \/ events[k].segmentIndex < events[l].segmentIndex
            \/ /\ events[k].segmentIndex = events[l].segmentIndex
               /\ events[k].pointIndexInSegment < events[l].pointIndexInSegment

\* C19: extractEdgeCrossings returns its events in path order (segment index
\* not decreasing, point index increasing within a segment); each event is
\* for two consecutive points i, i + 1 of one segment that lie on two
\* different faces, has fromFaceIndex # toFaceIndex and an edge the two
\* faces share, the second point as crossingPoint and i + 1 as
\* pointIndexInSegment.
C19_EventsInPathOrder ==
    crossings # Undefined =>
        /\ InPathOrder(crossings[1])
        /\ \A k \in 1..Len(crossings[1]) :
              EventOfPair(crossings[1][k], result.segments, getFaces(shape))

\* a path on the cube of two segments with two or more events, one of them
\* over an edge that is not the first of its face
C19_Witness ==
    /\ shape = "cube"
    /\ crossings # Undefined
    /\ Len(result.segments) >= 2
    /\ Len(crossings[1]) >= 2
    /\ \E k \in 1..Len(crossings[1]) :
          crossings[1][k].edgeVertex1
              # FindFace(getFaces(shape), crossings[1][k].fromFaceIndex)[1].vertices[1]

\* the doubly covered shapes the turtle walks on in this model
DcPathShapes == PathShapes \cap {"dcTriangle", "dcSquare", "dcHexagon"}

\* The steps of a path on a doubly covered shape that cross the boundary of
\* the polygon: the pairs of consecutive points of a segment drawn on
\* different sides of it, as the segment number and the number of the
\* second point, both from 0
BoundarySteps(segments, faces) ==
    UNION {{<<s - 1, i>> : i \in
               {j \in 1..(Len(segments[s].points) - 1) :
                   \E f, g \in Range(faces) :
                       /\ f.index # g.index
                       /\ DrawnOn(segments[s].points[j], f)
                       /\ DrawnOn(segments[s].points[j + 1], g)}} :
           s \in 1..Len(segments)}

\* the events are one for each of these steps, each from the side of its
\* first point to the side of its second
OnePerBoundaryStep(events, segments, faces) ==
    /\ Len(events) = Cardinality(BoundarySteps(segments, faces))
    /\ \A k \in 1..Len(events) :
          /\ <<events[k].segmentIndex, events[k].pointIndexInSegment>>
                \in BoundarySteps(segments, faces)
          /\ {events[k].fromFaceIndex, events[k].toFaceIndex} = {1, 2}
    /\ \A k \in 1..(Len(events) - 1) :
          events[k].segmentIndex = events[k + 1].segmentIndex
              => events[k + 1].fromFaceIndex = events[k].toFaceIndex

\* C20: on a doubly covered shape extractEdgeCrossings returns one event
\* for each step of the path that crosses the boundary of the polygon, from
\* face 1 to face 2 and back in turn: a path that crosses the boundary n
\* times gives n events with alternating face indices.
C20_EventPerBoundaryCrossing ==
    (crossings # Undefined /\ shape \in DcPathShapes) =>
        OnePerBoundaryStep(crossings[1], result.segments, getFaces(shape))

-----------------------------------------------------------------------------
(* The while loop of moveTurtle (src/utils/turtle.ts 131-181), one turn a  *)
(* step, for the calls generatePath makes of it.                           *)

\* The states generatePath hands to moveTurtle here: at the centre of face 1
\* or 0.48 to its side, turned by a multiple of a quarter turn
LoopGenerators(sh) ==
    {PathCmd(g, [type |-> "lt", value |-> <<a>>, lineNumber |-> 1], sh) :
        g \in {PathInit(sh),
               PathCmd(PathInit(sh),
                       [type |-> "start", value |-> <<0, 4800>>, lineNumber |-> 1], sh)},
        a \in {0, 90, 180, 270}}

\* the distances of the call, in units of 1/10000: none, onto the edge,
\* across one edge either way, and 100 and 200 edge lengths
LoopDistances == {0, 5000, 12000, -12000, 1000000, 2000000}

\* lines 132-136: the variables of moveTurtle on entry
MoveEntry(state, distance, faces, currentPath) ==
    [state |-> state, remaining |-> Abs(distance), iterations |-> 0,
     sign |-> Sign(distance), faces |-> faces,
     currentPath |-> currentPath, message |-> Undefined, returned |-> FALSE]

\* (a variant of whileCondition without the count of iterations)
whileUncapped(m) == m.remaining > EPSILON

\* line 138: remaining > 0.0001 && iterations < MAX_ITERATIONS
whileCondition(m) == m.remaining > EPSILON /\ m.iterations < MAX_ITERATIONS

InitLoop ==
    /\ shape \in PathShapes
    /\ \E g \in LoopGenerators(shape), distance \in LoopDistances :
          mv = MoveEntry(g.state, distance, getFaces(shape), g.currentPath)
    /\ loopPc = "loop"
    /\ RunnerIdle
    /\ ParseIdle
    /\ RollIdle(shape)
    /\ MoveIdle
    /\ FaceIdle
    /\ DodIdle
    /\ CrossIdle
    /\ SimIdle

\* one turn of the loop (lines 139-177); a return statement or the break
\* in it ends the loop
LoopTurn ==
    /\ loopPc = "loop"
    /\ whileCondition(mv)
    /\ mv' = MoveIteration(mv)
    /\ loopPc' = IF MoveIteration(mv).returned THEN "done" ELSE "loop"
    /\ UNCHANGED <<parseVars, pathVars, rollVars, moveVars, faceVars, dodVars, crossVars,
                   simVars>>

\* the condition of the loop fails: return null (line 180)
LoopExit ==
    /\ loopPc = "loop"
    /\ ~whileCondition(mv)
    /\ loopPc' = "done"
    /\ UNCHANGED <<mv, parseVars, pathVars, rollVars, moveVars, faceVars, dodVars, crossVars,
                   simVars>>

NextLoop == LoopTurn \/ LoopExit

SpecLoop == InitLoop /\ [][NextLoop]_vars

\* the edge crossings of the call so far: a turn of the loop adds one point
\* to the path, and a second one when it crosses an edge
LoopCrossings(m) == Len(m.currentPath) - 1 - m.iterations

C21_Bounded ==
    loopPc # "idle" =>
        /\ mv.iterations <= MAX_ITERATIONS
        /\ LoopCrossings(mv) <= MAX_ITERATIONS

\* every step of a call under way ends it or is one more turn of the loop
C21_Step ==
    loopPc = "loop" =>
        \/ loopPc' = "done" /\ mv'.iterations \in {mv.iterations, mv.iterations + 1}
        \/ loopPc' = "loop" /\ mv'.iterations = mv.iterations + 1

\* C21: every call of moveTurtle ends after at most 100 turns of its loop,
\* whatever the distance and the state it starts from, and so after at most
\* 100 edge crossings: the count of turns never exceeds 100, nor does the
\* count of crossings, and every step of the call ends it or adds one to
\* the count of turns.
C21_LoopTerminates == [](C21_Bounded) /\ [][C21_Step]_vars

\* a call that the count of iterations has ended, after 100 edge crossings
C21_Witness ==
    /\ loopPc = "done"
    /\ mv.iterations = MAX_ITERATIONS
    /\ LoopCrossings(mv) = MAX_ITERATIONS
    /\ mv.remaining > EPSILON

-----------------------------------------------------------------------------
(* The commands of generatePath one by one, under SpecPath                 *)

\* the vector h turned about the unit normal n by deg degrees, to the left
\* as seen from outside the face
TurnedAbout(h, n, deg) ==
    Add(Scale(h, CosDeg(deg)), Scale(Cross(n, h), SinDeg(deg)))

\* the generator g after a turn by deg degrees on the face f
OnlyTurned(g, after, f, deg) ==
    /\ after.state.heading = TurnedAbout(g.state.heading, f.normal, deg)
    /\ after.state.pos = g.state.pos
    /\ after.state.faceIndex = g.state.faceIndex
    /\ after.currentPath = g.currentPath
    /\ after.segments = g.segments
    /\ after.error = g.error
    /\ after.halted = g.halted

C23_Step ==
    (ReadsCommand /\ ~gp.halted /\ NewCmd.type \in {"lt", "rt"}) =>
        OnlyTurned(gp, gp', FindFace(getFaces(shape), gp.state.faceIndex)[1],
                   IF NewCmd.type = "lt" THEN NewCmd.value[1]
                   ELSE -NewCmd.value[1])

\* C23: in generatePath an lt or rt command changes only the heading, to
\* the heading turned about the normal of the face the turtle is on, by
\* +degrees for lt and -degrees for rt; position, face index, the current
\* polyline and the finished segments stay as they are and no error is set.
C23_TurnOnlyTurns == [][C23_Step]_vars

\* a turn to the left, read on a face other than the first
C23_Witness ==
    /\ pc = "loop"
    /\ Len(commands) >= 2
    /\ commands[Len(commands)].type = "lt"
    /\ gp.state.faceIndex # 1
    /\ ~gp.halted


\* the faces the point p is drawn on
FacesDrawnOn(p, faces) == {f \in Range(faces) : DrawnOn(p, f)}

\* the point of the surface over which p is drawn on the face f
Under(p, f) == Sub(p, Scale(f.normal, NORMAL_OFFSET))

\* the point q lies in the plane of the face g
InPlaneOf(q, g) == Dot(Sub(q, g.center), g.normal) = 0

\* from one point of the path to the next the turtle stays on its face, or
\* goes from a point of an edge of its face to the face that shares that
\* edge with it
StaysOrCrosses(p, q, faces) ==
    \E f \in FacesDrawnOn(p, faces), g \in FacesDrawnOn(q, faces) :
        \/ f.index = g.index
        \/ /\ findSharedEdge(f, g) # Undefined
           /\ InPlaneOf(Under(p, f), g)

\* the points are drawn on one face each, the first on the face numbered
\* from and the last on the face numbered to
FaceTrail(points, faces, from, to) ==
    /\ \A k \in 1..Len(points) : Cardinality(FacesDrawnOn(points[k], faces)) = 1
    /\ \E f \in FacesDrawnOn(points[1], faces) : f.index = from
    /\ \E f \in FacesDrawnOn(points[Len(points)], faces) : f.index = to
    /\ \A k \in 1..(Len(points) - 1) : StaysOrCrosses(points[k], points[k + 1], faces)

\* the turtle is put on face 1, with the heading of the start
PutOnStartFace(state, f, heading) ==
    /\ state.faceIndex = 1
    /\ f.index = 1
    /\ InPlaneOf(state.pos, f)
    /\ state.heading = heading

C29_Step ==
    (ReadsCommand /\ ~gp.halted) =>
        CASE NewCmd.type = "start" ->
                PutOnStartFace(gp'.state, StartFace(shape), InitialHeading(shape))
          [] NewCmd.type \in {"lt", "rt"} ->
                gp'.state.faceIndex = gp.state.faceIndex
          [] OTHER ->
                FaceTrail(StepPoints, getFaces(shape), gp.state.faceIndex,
                          gp'.state.faceIndex)

\* C29: throughout generatePath the face index of the turtle is a face index
\* of the shape; a start command sets it to 1, with position and heading set
\* from face 1; in an fd or bk command every edge crossing sets it to the
\* face that shares the crossed edge with the face before, and a piece that
\* stays on the face or ends at a vertex leaves it as it is; lt and rt leave
\* it as it is.
C29_FaceIndexFollowsPath ==
    [](gp.state.faceIndex \in 1..faceCount(shape)) /\ [][C29_Step]_vars

\* a walk on the cube that has crossed onto the face that shares no edge
\* with face 1
C29_Witness ==
    /\ shape = "cube"
    /\ Len(commands) >= 1
    /\ gp.state.faceIndex # 1
    /\ findSharedEdge(StartFace(shape),
                      FindFace(getFaces(shape), gp.state.faceIndex)[1]) = Undefined

-----------------------------------------------------------------------------
(* The direction angles of the targets and the sectors of getMoveData      *)

\* the angle ang lies inside one sector of getMoveData of the shape: the
\* call has one result, and the same result one degree to either side
InsideSector(sh, ang) ==
    /\ Cardinality(getMoveData(sh, ang)) = 1
    /\ getMoveData(sh, ang - 1) = getMoveData(sh, ang)
    /\ getMoveData(sh, ang + 1) = getMoveData(sh, ang)

\* C30: at every settled pose each direction angle updateTargets produces
\* lies at the centre of a sector of getMoveData of the shape and not on the
\* boundary between two sectors, so that a small change of the angle does
\* not change the label or the delta returned; so for dcHexagon.
C30_AnglesInsideSectors ==
    ~sim.isRolling =>
        \A i \in 1..Len(targets) : InsideSector(shape, targets[i].directionAngle)


-----------------------------------------------------------------------------
(* The lattice coordinate of a step against where the step stands           *)

\* the coordinate (u, v) of a step is its world (x, z) over the edge length
OnItsCell(step) ==
    /\ step.coordinate.u * EDGE_LENGTH = step.position[1]
    /\ step.coordinate.v * EDGE_LENGTH = step.position[3]

\* C28: for the cube the lattice coordinate of every step of the history is
\* the world position (x, z) of that step divided by the edge length, in
\* every state, a jump to a step while a roll is under way included.
C28_CoordinateIsPosition ==
    shape = "cube" => \A i \in 1..Len(history) : OnItsCell(history[i])


-----------------------------------------------------------------------------
(* App and Simulation under the scheduler of React (src/App.tsx 103-214,    *)
(* src/polyhedra/index.ts 37-96, 199-293).  A state update that a frame, a  *)
(* timer or an effect schedules is committed by a later render; the updates *)
(* of a click are committed at the end of the click, together with every    *)
(* update scheduled before it.  Until a commit every callback reads the     *)
(* state of the last render; a ref is written at once.  Frames on which     *)
(* rollProgress stays below 1 change nothing but the pose shown and are     *)
(* left out.                                                                *)

\* the shapes of this part of the model: their rolls are quarter and half
\* turns about the axes of the floor
SimShapes == {"cube", "dcSquare"}

\* the most updates that wait for a commit when another frame runs
MaxPending == 3

\* the most crossings of a roll animation
MaxCrossings == 2

\* the most roll animations started
MaxAnimations == 1

\* the most clicks on roll targets that start a roll
MaxClicks == 3

\* bv.distanceTo(worldEdge) < 0.01 (index.ts 236)
MATCH_TOLERANCE == 100

\* the state the last render read
Rendered ==
    [currentShape           |-> shape,
     history                |-> history,
     currentStepIndex       |-> currentStepIndex,
     pathSegments           |-> app.pathSegments,
     flatPathSegments       |-> app.flatPathSegments,
     pathError              |-> app.pathError,
     rollAnimationCrossings |-> anim.rollAnimationCrossings,
     isRolling              |-> sim.isRolling,
     isRollAnimating        |-> anim.isRollAnimating,
     currentCrossingIndex   |-> anim.currentCrossingIndex]

\* setX(value)
SetState(hook, value) == [hook |-> hook, functional |-> FALSE, value |-> value]

\* setX(prev => prev + 1)
SetNext(hook) == [hook |-> hook, functional |-> TRUE, value |-> 1]

ApplyUpdate(st, u) ==
    [st EXCEPT ![u.hook] = IF u.functional THEN @ + u.value ELSE u.value]

\* the state after the updates, applied in the order they were scheduled in
RECURSIVE ApplyUpdates(_, _)
ApplyUpdates(st, ups) ==
    IF Len(ups) = 0 THEN st ELSE ApplyUpdates(ApplyUpdate(st, Head(ups)), Tail(ups))

\* the effect of index.ts 62-71, which runs when rollAnimationCrossings has
\* changed: the updates it schedules
StartEffect(before, after) ==
    IF /\ after.rollAnimationCrossings # before.rollAnimationCrossings
       /\ Len(after.rollAnimationCrossings) > 0
    THEN <<SetState("isRollAnimating", TRUE), SetState("currentCrossingIndex", 0)>>
    ELSE <<>>

\* the dependencies of the effect of index.ts 73-88
SequenceDeps(st) ==
    <<st.isRollAnimating, st.isRolling, st.currentCrossingIndex, st.rollAnimationCrossings>>

\* line 74
NextRollDue(st) ==
    /\ st.isRollAnimating
    /\ ~st.isRolling
    /\ st.currentCrossingIndex < Len(st.rollAnimationCrossings)

\* line 81
AnimationOver(st) ==
    /\ st.isRollAnimating
    /\ ~st.isRolling
    /\ st.currentCrossingIndex >= Len(st.rollAnimationCrossings)

\* lines 73-88: whether the timer of the next roll is set after the render;
\* the cleanup of the effect clears the timer of the render before
TimerAfter(before, after, timer) ==
    IF SequenceDeps(after) # SequenceDeps(before) THEN NextRollDue(after) ELSE timer

\* lines 81-87: whether the effect finds the animation over
FindsAnimationOver(before, after) ==
    SequenceDeps(after) # SequenceDeps(before) /\ AnimationOver(after)

\* lines 83-86 with handleRollAnimationComplete (App.tsx 211-214): the
\* updates scheduled
SequenceEffect(before, after) ==
    IF FindsAnimationOver(before, after)
    THEN <<SetState("isRollAnimating", FALSE), SetState("rollAnimationCrossings", <<>>)>>
    ELSE <<>>

\* currentStep = history[currentStepIndex] (App.tsx 124) is undefined
HasNoCurrentStep(st) == st.currentStepIndex + 1 > Len(st.history)

\* the dependencies of the effect of index.ts 90-96
PoseDeps(st) ==
    <<st.history[st.currentStepIndex + 1].position,
      st.history[st.currentStepIndex + 1].quaternion,
      st.isRolling, st.isRollAnimating, st.currentShape>>

\* lines 90-96: the pose of the mesh after the render
MeshAfter(before, after, m) ==
    IF HasNoCurrentStep(after) THEN m
    ELSE IF PoseDeps(after) # PoseDeps(before) /\ ~after.isRolling /\ ~after.isRollAnimating
    THEN [position   |-> after.history[after.currentStepIndex + 1].position,
          quaternion |-> after.history[after.currentStepIndex + 1].quaternion]
    ELSE m

\* App and Simulation are mounted: no render of App has thrown
Mounted == app.thrown = Undefined

\* a render of the state `after` and the effects it runs; refs is sim with
\* the refs as the caller left them, counted the calls counted before it.
\* The render of App throws a TypeError at currentStep.position (App.tsx
\* 292) when there is no current step, and no effect runs.
Commits(before, after, refs, counted) ==
    /\ Mounted
    /\ shape' = after.currentShape
    /\ history' = after.history
    /\ currentStepIndex' = after.currentStepIndex
    /\ app' = [app EXCEPT !.pathSegments = after.pathSegments,
                          !.flatPathSegments = after.flatPathSegments,
                          !.pathError = after.pathError,
                          !.thrown = IF HasNoCurrentStep(after)
                                     THEN Some("TypeError") ELSE Undefined]
    /\ sim' = [refs EXCEPT !.isRolling = after.isRolling]
    /\ anim' = [isRollAnimating        |-> after.isRollAnimating,
                currentCrossingIndex   |-> after.currentCrossingIndex,
                rollAnimationCrossings |-> after.rollAnimationCrossings,
                timer                  |-> IF HasNoCurrentStep(after) THEN FALSE
                                           ELSE TimerAfter(before, after, anim.timer)]
    /\ mesh' = MeshAfter(before, after, mesh)
    /\ updates' = IF HasNoCurrentStep(after) THEN <<>>
                  ELSE StartEffect(before, after) \o SequenceEffect(before, after)
    /\ reported' = IF ~HasNoCurrentStep(after) /\ FindsAnimationOver(before, after)
                   THEN [counted EXCEPT !.onRollAnimationComplete = @ + 1]
                   ELSE counted

\* a render that the scheduler starts: it commits every update scheduled
Commit ==
    /\ Len(updates) > 0
    /\ Commits(Rendered, ApplyUpdates(Rendered, updates), sim, reported)
    /\ UNCHANGED <<rolls, rollProgress, parseVars, commands, gp, fp, pc, result,
                   flatSegments, moveVars, faceVars, dodVars, crossVars, loopVars>>

\* a click: the updates own of its handler are committed at its end, after
\* the updates scheduled before it
Handled(own, refs, counted) ==
    Commits(Rendered, ApplyUpdates(Rendered, updates \o own), refs, counted)

\* initiateRoll (index.ts 199-209): the refs it writes
initiateRoll(axis, pivot, move) ==
    [sim EXCEPT !.rollStartPos  = mesh.position,
                !.rollStartQuat = mesh.quaternion,
                !.rollAxis      = axis,
                !.rollPivot     = pivot,
                !.pendingMove   = move]

\* definition.getVertices() and definition.getBottomVertexCount()
getVertices(sh) == IF sh = "cube" THEN CUBE_VERTICES ELSE DC_SQUARE_VERTICES

getBottomVertexCount(sh) == 4

ToWorld(v, m) == Add(applyQuaternion(v, m.quaternion), m.position)

\* The shape rests on the floor: its getBottomVertexCount lowest vertices
\* touch it.  The model follows the rolls that start from such a pose; a
\* roll that a change of shape overtakes can leave the mesh in another one.
OnTheFloor(m, sh) ==
    LET y(i) == ToWorld(getVertices(sh)[i], m)[2]
        n == Len(getVertices(sh))
    IN  /\ \A i \in 1..n : y(i) >= 0
        /\ Cardinality({i \in 1..n : y(i) = 0}) = getBottomVertexCount(sh)

\* (a variant of the test of handleRoll that lets every click through)
handleRollAlways == FALSE

\* index.ts 254: handleRoll returns at once; meshRef.current is set while
\* Simulation is mounted
handleRollReturns == sim.isRolling \/ anim.isRollAnimating

\* handleRoll (index.ts 253-257) for a click on a roll target
Click ==
    /\ ~handleRollReturns
    /\ OnTheFloor(mesh, shape)
    /\ rolls < MaxClicks
    /\ rolls' = rolls + 1
    /\ rollProgress' = 0
    /\ \E target \in Range(updateTargets(mesh.position, mesh.quaternion, shape)) :
        \E md \in getMoveData(shape, target.directionAngle) :
            Handled(<<SetState("isRolling", TRUE)>>,
                    initiateRoll(target.axis, target.point, Some(md)),
                    [reported EXCEPT !.onRollComplete = 0])
    /\ UNCHANGED <<parseVars, commands, gp, fp, pc, result, flatSegments, moveVars,
                   faceVars, dodVars, crossVars, loopVars>>

\* index.ts 229-231: the groundCount lowest of the vertices, in the order
\* the sort leaves them in
BottomVertices(world, groundCount) ==
    LET before(j, i) == world[j][2] < world[i][2] \/ (world[j][2] = world[i][2] /\ j < i)
        rank(i) == Cardinality({j \in 1..Len(world) : before(j, i)})
    IN  [r \in 1..groundCount |-> world[CHOOSE i \in 1..Len(world) : rank(i) = r - 1]]

\* index.ts 234-239
MatchingBottomVerts(bottomVertices, worldEdge1, worldEdge2) ==
    SelectSeq(bottomVertices,
              LAMBDA bv : \/ DistSq(bv, worldEdge1) < MATCH_TOLERANCE * MATCH_TOLERANCE
                          \/ DistSq(bv, worldEdge2) < MATCH_TOLERANCE * MATCH_TOLERANCE)

\* index.ts 214-227: the vertices of the shape in world coordinates
WorldVertices(m, sh) ==
    [i \in 1..Len(getVertices(sh)) |-> ToWorld(getVertices(sh)[i], m)]

\* index.ts 214-239: the bottom vertices at the ends of the edge of the
\* crossing
CrossingMatches(crossing, world, m, sh) ==
    MatchingBottomVerts(BottomVertices(world, getBottomVertexCount(sh)),
                        ToWorld(crossing.edgeVertex1, m), ToWorld(crossing.edgeVertex2, m))

\* the timer of index.ts 76-79 fires: triggerRollForCrossing (lines 211-251)
\* for the crossing at currentCrossingIndex
TimerFires ==
    /\ Mounted
    /\ anim.timer
    /\ OnTheFloor(mesh, shape)
    /\ anim' = [anim EXCEPT !.timer = FALSE]
    /\ \E world \in {WorldVertices(mesh, shape)} :
       \E matching \in {CrossingMatches(
                            anim.rollAnimationCrossings[anim.currentCrossingIndex + 1],
                            world, mesh, shape)} :
          IF Len(matching) >= 2
          THEN \E pivot \in {Half(Add(matching[1], matching[2]))} :
               \E toPivot \in {Sub(pivot, <<mesh.position[1], 0, mesh.position[3]>>)} :
               \E axis \in {Direction(UpCross(Direction(toPivot), XWeight(shape)))} :
                  /\ sim' = initiateRoll(axis, pivot, Undefined)
                  /\ rollProgress' = 0
                  /\ updates' = Append(updates, SetState("isRolling", TRUE))
                  /\ reported' = [reported EXCEPT !.onRollComplete = 0]
          ELSE UNCHANGED <<sim, rollProgress, updates, reported>>
    /\ UNCHANGED <<history, currentStepIndex, rolls, mesh, parseVars, pathVars, moveVars,
                   faceVars, dodVars, crossVars, loopVars>>

\* useFrame (index.ts 259-293) on a frame that finds rollProgress.current
\* at 1 after line 263, with the call of onRollComplete = handleRollComplete
\* (App.tsx 131-150) of the last render
Frame ==
    /\ Mounted
    /\ sim.isRolling
    /\ Len(updates) <= MaxPending
    /\ rollProgress' = 1
    /\ LET qRot == setFromAxisAngle(sim.rollAxis, rollAngle(shape), XWeight(shape))
           newQuat == multiply(qRot, sim.rollStartQuat)
           newPos == Add(sim.rollPivot,
                         applyQuaternion(Sub(sim.rollStartPos, sim.rollPivot), qRot))
       IN  /\ mesh' = [position |-> newPos, quaternion |-> newQuat]
           /\ IF anim.isRollAnimating
              THEN /\ updates' = updates \o <<SetState("isRolling", FALSE),
                                               SetNext("currentCrossingIndex")>>
                   /\ UNCHANGED reported
              ELSE IF sim.pendingMove # Undefined
              THEN /\ updates' = updates \o
                        <<SetState("isRolling", FALSE),
                          SetState("history",
                              handleRollComplete(history, currentStepIndex, shape,
                                  newPos, newQuat, sim.pendingMove[1].label,
                                  sim.pendingMove[1].delta,
                                  calculateFaceIndex(newQuat, rollFaceCenters(shape)))),
                          SetState("currentStepIndex",
                              Len(SubSeq(history, 1, currentStepIndex + 1)))>>
                   /\ reported' = [reported EXCEPT !.onRollComplete = @ + 1]
              ELSE /\ updates' = Append(updates, SetState("isRolling", FALSE))
                   /\ UNCHANGED reported
    /\ UNCHANGED <<history, currentStepIndex, sim, rolls, anim, parseVars, pathVars,
                   moveVars, faceVars, dodVars, crossVars, loopVars>>

\* jumpToStep (App.tsx 152-155) for a click on a step of the history shown
JumpTo ==
    /\ \E index \in 0..(Len(history) - 1) :
          Handled((IF history[index + 1].shape # shape
                   THEN <<SetState("currentShape", history[index + 1].shape)>>
                   ELSE <<>>) \o <<SetState("currentStepIndex", index)>>,
                  sim, reported)
    /\ UNCHANGED <<rolls, rollProgress, parseVars, commands, gp, fp, pc, result,
                   flatSegments, moveVars, faceVars, dodVars, crossVars, loopVars>>

\* changeShape (App.tsx 103-116); the stamps are left out.  The shape is
\* changed while Simulation has no list of crossings to play: the poses of
\* this model are those of a shape rolled about its own edges.
ChangeShape ==
    /\ Len(anim.rollAnimationCrossings) = 0
    /\ \E s \in SimShapes :
          IF s = shape
          THEN Mounted /\ UNCHANGED <<shape, history, currentStepIndex, app, sim, anim,
                                      mesh, updates, reported>>
          ELSE Handled(<<SetState("currentShape", s),
                         SetState("history", createInitialHistory(s)),
                         SetState("currentStepIndex", 0),
                         SetState("pathSegments", <<>>),
                         SetState("flatPathSegments", <<>>),
                         SetState("pathError", Undefined)>>,
                       sim, reported)
    /\ UNCHANGED <<rolls, rollProgress, parseVars, commands, gp, fp, pc, result,
                   flatSegments, moveVars, faceVars, dodVars, crossVars, loopVars>>

\* the crossings extractEdgeCrossings records for a step from face a to
\* face b of the shape
CrossingOver(sh, a, b) ==
    LET face1 == FindFace(getFaces(sh), a)[1]
        face2 == FindFace(getFaces(sh), b)[1]
        sharedEdge == findSharedEdge(face1, face2)[1]
    IN  EdgeCrossing(face1, face2, sharedEdge, Half(Add(sharedEdge.v1, sharedEdge.v2)), 0, 0)

\* steps from the face on the floor at the start to two of its neighbours
\* and back from one, and on the cube the step from that neighbour on to
\* the face on top
CrossingSteps(sh) ==
    IF sh = "cube" THEN {<<1, 2>>, <<2, 1>>, <<2, 6>>, <<1, 3>>} ELSE {<<1, 2>>, <<2, 1>>}

\* the lists of crossings Simulation is given
AnimationLists(sh) ==
    UNION {[1..n -> {CrossingOver(sh, st[1], st[2]) : st \in CrossingSteps(sh)}] :
              n \in 1..MaxCrossings}

\* handleRollAnimation (App.tsx 166-209) when it reaches line 208 with a
\* list of crossings: lines 168-170 and 208; the path it draws is left out
StartRollAnimation ==
    /\ reported.animations < MaxAnimations
    /\ \E list \in AnimationLists(shape) :
          Handled(<<SetState("history", createInitialHistory(shape)),
                    SetState("currentStepIndex", 0),
                    SetState("rollAnimationCrossings", list)>>,
                  sim,
                  [reported EXCEPT !.animations = @ + 1, !.onRollAnimationComplete = 0])
    /\ UNCHANGED <<rolls, rollProgress, parseVars, commands, gp, fp, pc, result,
                   flatSegments, moveVars, faceVars, dodVars, crossVars, loopVars>>

InitSim ==
    /\ shape \in SimShapes
    /\ RunnerIdle
    /\ ParseIdle
    /\ RollIdle(shape)
    /\ MoveIdle
    /\ GeomIdle

NextSim ==
    Click \/ Frame \/ Commit \/ TimerFires \/ JumpTo \/ ChangeShape \/ StartRollAnimation

SpecSim == InitSim /\ [][NextSim]_vars


-----------------------------------------------------------------------------
(* Properties of App and Simulation under SpecSim                           *)

\* the step is a call of changeShape with a shape other than the current one
ShapeChanges == shape' # shape

C22_Step ==
    ShapeChanges =>
        /\ history' = createInitialHistory(shape')
        /\ currentStepIndex' = 0
        /\ app'.pathSegments = <<>>
        /\ app'.flatPathSegments = <<>>
        /\ app'.pathError = Undefined
        /\ ~sim'.isRolling
        /\ ~anim'.isRollAnimating

\* C22: after changeShape(s) with s other than the current shape the history
\* is the single START step of s (face 1, coordinate (0,0)), the current
\* step index is 0, the path segments of both views are empty, the path
\* error is cleared, and no roll and no roll animation is in progress.
C22_ChangeShapeDiscards == [][C22_Step]_vars


\* the refs initiateRoll writes
RollRefs ==
    <<sim.rollStartPos, sim.rollStartQuat, sim.rollAxis, sim.rollPivot, sim.pendingMove>>

\* initiateRoll has called setIsRolling(true) and the update waits for its
\* commit
StartScheduled ==
    \E i \in 1..Len(updates) : updates[i].hook = "isRolling" /\ updates[i].value

\* a roll has been initiated and no frame has found its progress at 1 yet
RollUnderWay == rollProgress = 0 /\ (sim.isRolling \/ StartScheduled)

C24_Step ==
    RollUnderWay => rolls' = rolls /\ RollRefs' = RollRefs

\* C24: while a roll is under way no click on a roll target is accepted and
\* no timer of a roll animation waits to start another roll: the start pose,
\* the axis, the pivot, the progress and the pending move of the roll stay
\* as initiateRoll recorded them until a frame completes the roll.
C24_OneRollAtATime == [](RollUnderWay => ~anim.timer) /\ [][C24_Step]_vars

\* C24 witness: a roll of a roll animation is under way, and the user has
\* clicks on roll targets left to make.
C24_Witness ==
    /\ RollUnderWay
    /\ sim.isRolling
    /\ anim.isRollAnimating
    /\ sim.pendingMove = Undefined
    /\ rolls < MaxClicks


\* the render that ends a roll of a roll animation: isRolling falls while
\* the animation runs on
AnimatedRollEnds ==
    /\ sim.isRolling
    /\ ~sim'.isRolling
    /\ anim.isRollAnimating
    /\ anim'.isRollAnimating

C25_Step ==
    /\ AnimatedRollEnds =>
          anim'.currentCrossingIndex = anim.currentCrossingIndex + 1
    /\ Len(history') > Len(history) =>
          /\ Len(history') = Len(SubSeq(history, 1, currentStepIndex + 1)) + 1
          /\ sim.isRolling /\ rollProgress = 1

\* C25: a roll reports its completion once, however frames and commits
\* interleave: onRollComplete is called at most once for a roll, and never
\* for a roll started by the roll animation; the history grows only by the
\* one step of a roll whose progress has reached 1; the render that ends a
\* roll of a roll animation finds the crossing index advanced by exactly 1.
C25_ReportsOnce ==
    /\ [](reported.onRollComplete <= 1)
    /\ [](sim.pendingMove = Undefined => reported.onRollComplete = 0)
    /\ [][C25_Step]_vars


\* the history holds its steps in order from the START step of the current
\* shape, and the step shown is one of them
HistoryInOrder ==
    /\ Len(history) >= 1
    /\ currentStepIndex >= 0
    /\ currentStepIndex < Len(history)
    /\ history[1].moveLabel = "START"
    /\ history[1].coordinate = [u |-> 0, v |-> 0]
    /\ history[1].faceIndex = 1
    /\ \A i \in 1..Len(history) :
          history[i].moveIndex = i - 1 /\ history[i].shape = shape

\* the render that commits the step of a completed roll; a click handled in
\* the same render may jump on from the new step
StepAdded == history' # history /\ Len(history') > 1

C27_Step ==
    StepAdded =>
        /\ Len(history') = currentStepIndex + 2
        /\ SubSeq(history', 1, currentStepIndex + 1) = SubSeq(history, 1, currentStepIndex + 1)
        /\ history'[Len(history')].coordinate =
              [u |-> history[currentStepIndex + 1].coordinate.u + sim.pendingMove[1].delta.u,
               v |-> history[currentStepIndex + 1].coordinate.v + sim.pendingMove[1].delta.v]
        /\ ApplyUpdates(Rendered, updates).currentStepIndex = Len(history') - 1

\* C27: in every state the history is non-empty, the current step index is
\* an index of it, its first step is the START step with coordinate (0,0)
\* and face 1, and step i has moveIndex i and the current shape; a roll
\* completed at step i leaves the steps up to i, replaces those after it by
\* one step whose coordinate is that of step i plus the delta of the move,
\* and makes the new step the current one.
C27_HistoryWellFormed == []HistoryInOrder /\ [][C27_Step]_vars


-----------------------------------------------------------------------------
(* The roll animation played to its end                                     *)

\* Simulation is given a list of crossings: the state after its first
\* render and the effects of that render
InitPlay ==
    /\ shape \in SimShapes
    /\ RunnerIdle
    /\ ParseIdle
    /\ MoveIdle
    /\ FaceIdle
    /\ DodIdle
    /\ CrossIdle
    /\ LoopIdle
    /\ history = createInitialHistory(shape)
    /\ currentStepIndex = 0
    /\ sim = SimInit
    /\ rolls = 0
    /\ \E list \in AnimationLists(shape) :
          anim = [isRollAnimating |-> FALSE, currentCrossingIndex |-> 0,
                  rollAnimationCrossings |-> list, timer |-> FALSE]
    /\ mesh = [position |-> initialPosition(shape), quaternion |-> initialQuaternion(shape)]
    /\ rollProgress = 0
    /\ updates = <<SetState("isRollAnimating", TRUE), SetState("currentCrossingIndex", 0)>>
    /\ reported = [onRollComplete |-> 0, onRollAnimationComplete |-> 0, animations |-> 1]

NextPlay == Click \/ Frame \/ Commit \/ TimerFires \/ JumpTo

\* the scheduler of React runs the render of the updates scheduled, the
\* browser runs the next animation frame and the timer that was set
SpecPlay ==
    /\ InitPlay
    /\ [][NextPlay]_vars
    /\ WF_vars(Commit)
    /\ WF_vars(Frame)
    /\ WF_vars(TimerFires)

\* the animation is over: the flag is down, the list is cleared after the
\* one call of onRollAnimationComplete
AnimationDone ==
    /\ ~anim.isRollAnimating
    /\ Len(anim.rollAnimationCrossings) = 0
    /\ reported.onRollAnimationComplete = 1

\* C26: a roll animation of a non-empty list of crossings comes to its end:
\* the animating flag is false again, onRollAnimationComplete has been
\* called once and the list is cleared, so that clicks on roll targets are
\* accepted again.
C26_AnimationCompletes == Len(anim.rollAnimationCrossings) > 0 ~> AnimationDone

=============================================================================
